---- MODULE Spec2Model ----
(***************************************************************************)
(* Model of the Electrum network manager (electrum_ltc/network.py) and of  *)
(* the address synchronizer (electrum_ltc/synchronizer.py).                *)
(*                                                                         *)
(* Eight specifications share the module:                                  *)
(*   Spec       the Network object: pool of interfaces, main interface,    *)
(*              new_interface tasks, set_parameters, maintain_sessions     *)
(*   ChunkSpec  concurrent callers of Network.request_chunk                *)
(*   SyncSpec   one Synchronizer against one server session                *)
(*   CallSpec   calls of serialize_proxy, deserialize_proxy and            *)
(*              broadcast_transaction                                      *)
(*   BootSpec   the start of a Network with one configured server, with    *)
(*              the events it notifies and the tasks it spawns             *)
(*   EventSpec  subscribers of one event and trigger_callback              *)
(*   RecentSpec calls of add_recent_server                                 *)
(*   RecoverSpec the Network under fair scheduling, with servers that      *)
(*              accept connections                                         *)
(*                                                                         *)
(* Scheduling: all handlers run on one asyncio loop, so a handler is       *)
(* atomic from one await to the next; every await is a separate action.    *)
(***************************************************************************)
EXTENDS Integers, Sequences, FiniteSets, TLC

\* ----------------------------------------------------------------- bounds
PoolSize == 1        \* num_server when 'oneserver' is not set (10 in the code)
MaxIface == 2        \* Interface objects alive at the same time
LocalHeight == 3     \* height of the local header chain
NumCallers == 2      \* concurrent callers of request_chunk
MaxTxs == 3          \* transactions the server ever reports for an address
MaxLog == 11         \* events logged since the start of the Network
MaxTasks == 2        \* request_server_info and request_fee_estimates tasks
MaxCallbacks == 2    \* subscribers registered for the event
NumRecent == 4       \* entries add_recent_server keeps (20 in the code)

\* ------------------------------------------------------ program constants
ChunkSize == 2016    \* headers per chunk

\* the known servers (constants.net.DEFAULT_SERVERS), as server strings
ServerList == <<"a", "b">>
Servers == {ServerList[k] : k \in 1..Len(ServerList)}
IfaceIds == 1..MaxIface
None == 0
TipValues == {LocalHeight - 2, LocalHeight}

VARIABLES
    \* Network (network.py:173-229)
    default_server, interface, interfaces, connecting, socket_queue,
    disconnected_servers, auto_connect, num_server, protocol, proxy,
    connection_status,
    \* the Interface objects, the new_interface tasks awaiting `ready`
    iface, tasks,
    \* an AssertionError was raised
    assertion_error,
    \* Network.requested_chunks, the calls of request_chunk, and whether
    \* callers that pass can_return_early=False exist
    requested_chunks, chunk_calls, plain_callers,
    \* the wallet of the Synchronizer (history, transactions, up_to_date)
    wallet_history, wallet_transactions, wallet_up_to_date,
    \* Synchronizer (synchronizer.py:52-60) and its suspended coroutines
    requested_tx, requested_histories, requested_addrs,
    scripthash_to_address, add_queue, status_queue, sync_tasks,
    \* the server of the session: the history it holds for each address,
    \* the scripthashes subscribed to, the last status it sent for each
    server_history, subscriptions, last_pushed_status,
    \* a proxy dict, the string it serializes to, the dict read back from a
    \* string; the last call of broadcast_transaction
    proxy_arg, proxy_str, proxy_out, broadcast,
    \* Network.callbacks[event] of one event; the last call of
    \* trigger_callback
    callbacks, dispatch,
    \* Network.recent_servers; the argument of the last call of
    \* add_recent_server and the arguments of all calls so far
    recent_servers, last_server, added_servers,
    \* the events notify() has emitted since the Network was constructed,
    \* and the request_server_info and request_fee_estimates tasks
    event_log, info_tasks

netvars == <<default_server, interface, interfaces, connecting, socket_queue,
             disconnected_servers, auto_connect, num_server, protocol, proxy,
             connection_status, iface, tasks, assertion_error>>

chunkvars == <<requested_chunks, chunk_calls, plain_callers>>

syncvars == <<wallet_history, wallet_transactions, wallet_up_to_date,
              requested_tx, requested_histories, requested_addrs,
              scripthash_to_address, add_queue, status_queue, sync_tasks>>

servervars == <<server_history, subscriptions, last_pushed_status>>

eventvars == <<callbacks, dispatch>>
recentvars == <<recent_servers, last_server, added_servers>>
callvars == <<proxy_arg, proxy_str, proxy_out, broadcast, eventvars,
              recentvars>>

bootvars == <<event_log, info_tasks>>

vars == <<netvars, chunkvars, syncvars, servervars, callvars, bootvars>>

\* ---------------------------------------------------------------- helpers
Put(f, k, v) == [x \in (DOMAIN f) \cup {k} |-> IF x = k THEN v ELSE f[x]]
Drop(f, k) == [x \in (DOMAIN f) \ {k} |-> f[x]]
Range(f) == {f[x] : x \in DOMAIN f}
Min(S) == CHOOSE x \in S : \A y \in S : x <= y
EmptyMap == [x \in {} |-> None]

\* ---------------------------------------------------------------- proxies
\* A str is modelled by its pieces s.split(':'), so that ':'.join is the
\* concatenation of the pieces; the empty str is <<"">>, and <<>> is no str.
NoStr == <<>>

\* Optional[dict]: a dict is a function from its keys to their values
NoProxy == [none |-> TRUE]

proxy_modes == <<"socks4", "socks5">>

\* p.get(key, default)
Get(p, key, default) == IF key \in DOMAIN p THEN p[key] ELSE default

\* serialize_proxy raises TypeError: ':'.join meets the None that p.get
\* returns for a key the dict lacks
serialize_proxy_raises(p) ==
    p # NoProxy /\ ~({"mode", "host", "port"} \subseteq DOMAIN p)

serialize_proxy(p) ==
    IF p = NoProxy THEN NoStr
    ELSE p["mode"] \o p["host"] \o p["port"]
            \o Get(p, "user", <<"">>) \o Get(p, "password", <<"">>)

\* s.lower(), for the spellings of 'none' among the pieces of the model
lower(s) ==
    [k \in 1..Len(s) |-> IF s[k] \in {"None", "NONE"} THEN "none" ELSE s[k]]

deserialize_proxy(s) ==
    IF s = NoStr THEN NoProxy
    ELSE IF lower(s) = <<"none">> THEN NoProxy
    ELSE LET args == s
             has_mode == Cardinality({k \in 1..Len(proxy_modes) :
                                        proxy_modes[k] = args[1]}) = 1
             n1 == IF has_mode THEN 1 ELSE 0
             mode == IF has_mode THEN args[1] ELSE "socks5"
             has_host == Len(args) > n1
             n2 == IF has_host THEN n1 + 1 ELSE n1
             has_port == Len(args) > n2
             n3 == IF has_port THEN n2 + 1 ELSE n2
             has_user == Len(args) > n3
             n4 == IF has_user THEN n3 + 1 ELSE n3
             has_password == Len(args) > n4
             keys == {"mode", "host", "port"}
                        \cup (IF has_user THEN {"user"} ELSE {})
                        \cup (IF has_password THEN {"password"} ELSE {})
         IN [key \in keys |->
                CASE key = "mode" -> <<mode>>
                  [] key = "host" -> <<IF has_host THEN args[n1 + 1]
                                       ELSE "localhost">>
                  [] key = "port" -> <<IF has_port THEN args[n2 + 1]
                                       ELSE IF mode = "http" THEN "8080"
                                       ELSE "1080">>
                  [] key = "user" -> <<args[n3 + 1]>>
                  [] key = "password" -> <<args[n4 + 1]>>]

\* proxy dicts a caller may hold: mode, host and port, with or without
\* user and password; a host may be a raw IPv6 address ("::1")
OptionalFields == {NoStr, <<"">>, <<"u">>}

ProxyDict(mode, host, port, user, password) ==
    [key \in {"mode", "host", "port"}
                \cup (IF user = NoStr THEN {} ELSE {"user"})
                \cup (IF password = NoStr THEN {} ELSE {"password"}) |->
        CASE key = "mode" -> mode
          [] key = "host" -> host
          [] key = "port" -> port
          [] key = "user" -> user
          [] key = "password" -> password]

ValidProxies ==
    {ProxyDict(<<proxy_modes[k]>>, host, <<"1080">>, user, password) :
        k \in 1..Len(proxy_modes), host \in {<<"h">>, <<"", "", "1">>},
        user \in OptionalFields, password \in OptionalFields}

\* the proxies of the Network model: none, or one SOCKS5 proxy
Proxies == {NoProxy, ProxyDict(<<"socks5">>, <<"h">>, <<"1080">>, NoStr, NoStr)}

\* proxy dicts set_parameters has to refuse: a mode that is not in
\* proxy_modes, a port that is no integer, no port
InvalidProxies ==
    {ProxyDict(<<"http">>, <<"h">>, <<"1080">>, NoStr, NoStr),
     ProxyDict(<<"socks5">>, <<"h">>, <<"x">>, NoStr, NoStr),
     [mode |-> <<"socks5">>, host |-> <<"h">>]}

\* int(s) returns: s is a numeral
int_parses(s) == Len(s) = 1 /\ s[1] \in {"1080", "8080", "9050"}

\* ------------------------------------------------------------ the Network
\* The Network object as one record, so that methods are operators on it.
\* events collects what the running handler emits (trigger_callback),
\* config the config.set_key calls it makes, raised the exception that
\* leaves it.
Net ==
    [default_server |-> default_server, interface |-> interface,
     interfaces |-> interfaces, connecting |-> connecting,
     socket_queue |-> socket_queue,
     disconnected_servers |-> disconnected_servers,
     auto_connect |-> auto_connect, num_server |-> num_server,
     protocol |-> protocol, proxy |-> proxy,
     connection_status |-> connection_status, iface |-> iface,
     tasks |-> tasks, events |-> <<>>, assertion_error |-> assertion_error,
     config |-> <<>>, raised |-> "", spawned |-> <<>>]

\* Interface objects nothing refers to any more are collected.
Referenced(n) ==
    Range(n.interfaces) \cup n.tasks
        \cup (IF n.interface = None THEN {} ELSE {n.interface})

\* Objects have no name of their own: the referenced ones are numbered
\* 1..k in the order of what they are (server, proxy, state, role), so
\* that states differing only in the numbering are one state.
ServerIndex(server) == CHOOSE k \in 1..Len(ServerList) : ServerList[k] = server

FirstServer(S) ==
    CHOOSE s \in S : \A t \in S : ServerIndex(s) <= ServerIndex(t)

ObjectKey(n, i) ==
    LET o == n.iface[i] IN
    (((ServerIndex(o.server) * 2 + (IF o.proxy = NoProxy THEN 0 ELSE 1)) * 2
        + (IF o.ready THEN 1 ELSE 0)) * 2
        + (IF o.closed THEN 1 ELSE 0)) * 2
        + (IF n.interface = i THEN 1 ELSE 0)

SetNetVars(n) ==
    \E R \in {Referenced(n)} :
    \E key \in {[i \in R |-> ObjectKey(n, i)]} :
    \E rank \in {[i \in R |->
                    1 + Cardinality({j \in R : \/ key[j] < key[i]
                                               \/ key[j] = key[i] /\ j < i})]} :
    \E at \in {[k \in 1..Cardinality(R) |-> CHOOSE i \in R : rank[i] = k]} :
    /\ default_server' = n.default_server
    /\ interface' = IF n.interface = None THEN None ELSE rank[n.interface]
    /\ interfaces' = [server \in DOMAIN n.interfaces |->
                        rank[n.interfaces[server]]]
    /\ connecting' = n.connecting
    /\ socket_queue' = n.socket_queue
    /\ disconnected_servers' = n.disconnected_servers
    /\ auto_connect' = n.auto_connect
    /\ num_server' = n.num_server
    /\ protocol' = n.protocol
    /\ proxy' = n.proxy
    /\ connection_status' = n.connection_status
    /\ iface' = [k \in DOMAIN at |->
                    [n.iface[at[k]] EXCEPT !.tip = 0, !.exception = FALSE]]
    /\ tasks' = {rank[i] : i \in n.tasks}
    /\ assertion_error' = n.assertion_error

SetNet(n) ==
    /\ SetNetVars(n)
    /\ UNCHANGED <<chunkvars, syncvars, servervars, callvars, bootvars>>

\* ------------------------------------------------------- Network methods
\* trigger_callback(event, ...): the event is recorded
notify(n, key) == [n EXCEPT !.events = Append(@, <<key, "">>)]

set_status(n, status) ==
    [n EXCEPT !.connection_status = status,
              !.events = Append(@, <<"status", status>>)]

is_connected(n) == n.interface # None /\ n.iface[n.interface].ready

is_connecting(n) == n.connection_status = "connecting"

get_server_height(n) ==
    IF n.interface # None THEN n.iface[n.interface].tip ELSE 0

\* blockchain().height() and read_header(): one local chain of LocalHeight
get_local_height(n) == LocalHeight

server_is_lagging(n) ==
    LET sh == get_server_height(n) IN
    IF sh = 0 THEN TRUE ELSE (get_local_height(n) - sh) > 1

\* hostmap of get_servers(): every known server speaks the protocol
get_servers(n) == Servers

\* pick_random_server: the servers random.choice may return ({} : None)
pick_random_server(hostmap, exclude_set) == hostmap \ exclude_set

start_interface(n, server) ==
    IF server \notin DOMAIN n.interfaces /\ server \notin n.connecting
    THEN LET m == IF server = n.default_server
                  THEN set_status(n, "connecting") ELSE n
         IN [m EXCEPT !.connecting = @ \cup {server},
                      !.socket_queue = Append(@, server)]
    ELSE n

\* the servers start_random_interface may choose
random_servers(n) ==
    LET exclude_set == n.disconnected_servers \cup DOMAIN n.interfaces
    IN pick_random_server(get_servers(n), exclude_set)

\* the states start_random_interface may leave
start_random_interface(n) ==
    LET eligible == random_servers(n)
    IN IF eligible = {} THEN {n}
       ELSE {start_interface(n, server) : server \in eligible}

set_proxy(n, p) ==
    [n EXCEPT !.proxy = p, !.events = Append(@, <<"proxy_set", p>>)]

\* close_interface that leaves the main interface in place
close_interface_keeps_main(n, i) ==
    IF i = None THEN n
    ELSE LET server == n.iface[i].server
             n1 == IF server \in DOMAIN n.interfaces
                   THEN [n EXCEPT !.interfaces = Drop(@, server)] ELSE n
         IN [n1 EXCEPT !.iface[i].closed = TRUE]

close_interface(n, i) ==
    IF i = None THEN n
    ELSE LET server == n.iface[i].server
             n1 == IF server \in DOMAIN n.interfaces
                   THEN [n EXCEPT !.interfaces = Drop(@, server)] ELSE n
             n2 == IF server = n1.default_server
                   THEN [n1 EXCEPT !.interface = None] ELSE n1
         IN [n2 EXCEPT !.iface[i].closed = TRUE]

\* connection_down that forgets to close the interface
connection_down_keeps_interface(n, server) ==
    LET n1 == [n EXCEPT !.disconnected_servers = @ \cup {server}]
    IN IF server = n1.default_server
       THEN set_status(n1, "disconnected") ELSE n1

connection_down(n, server) ==
    LET n1 == [n EXCEPT !.disconnected_servers = @ \cup {server}]
        n2 == IF server = n1.default_server
              THEN set_status(n1, "disconnected") ELSE n1
    IN IF server \in DOMAIN n2.interfaces
       THEN notify(close_interface(n2, n2.interfaces[server]), "interfaces")
       ELSE n2

\* asyncio.get_event_loop().create_task / group.spawn of a coroutine
spawn(n, coroutine) == [n EXCEPT !.spawned = Append(@, coroutine)]

\* switch_to_interface that awaits request_server_info before it notifies
\* the status: the events of the coroutine come first
switch_to_interface_awaiting_info(n, server) ==
    LET n1 == [n EXCEPT !.default_server = server] IN
    IF server \notin DOMAIN n1.interfaces
    THEN start_interface([n1 EXCEPT !.interface = None], server)
    ELSE LET i == n1.interfaces[server] IN
         IF n1.interface = i THEN n1
         ELSE LET n2 == notify(notify([n1 EXCEPT !.interface = i], "banner"),
                               "servers")
              IN notify(notify(set_status(n2, "connected"), "updated"),
                        "interfaces")

\* switch_to_interface that keeps the main interface while the new server
\* is not connected
switch_to_interface_keeps_main(n, server) ==
    LET n1 == [n EXCEPT !.default_server = server] IN
    IF server \notin DOMAIN n1.interfaces
    THEN start_interface(n1, server)
    ELSE LET i == n1.interfaces[server] IN
         IF n1.interface = i THEN n1
         ELSE LET n2 ==
                    IF n1.interface # None
                    THEN LET old_server == n1.iface[n1.interface].server
                             c == close_interface(n1, n1.interface)
                         IN IF Cardinality(DOMAIN c.interfaces) <= c.num_server
                            THEN start_interface(c, old_server) ELSE c
                    ELSE n1
                  n3 == notify(spawn([n2 EXCEPT !.interface = i],
                                     "request_server_info"),
                               "default_server_changed")
              IN notify(notify(set_status(n3, "connected"), "updated"),
                        "interfaces")

switch_to_interface(n, server) ==
    LET n1 == [n EXCEPT !.default_server = server] IN
    IF server \notin DOMAIN n1.interfaces
    THEN start_interface([n1 EXCEPT !.interface = None], server)
    ELSE LET i == n1.interfaces[server] IN
         IF n1.interface = i THEN n1
         ELSE LET n2 ==
                    IF n1.interface # None
                    THEN LET old_server == n1.iface[n1.interface].server
                             c == close_interface(n1, n1.interface)
                         IN IF Cardinality(DOMAIN c.interfaces) <= c.num_server
                            THEN start_interface(c, old_server) ELSE c
                    ELSE n1
                  n3 == notify(spawn([n2 EXCEPT !.interface = i],
                                     "request_server_info"),
                               "default_server_changed")
              IN notify(notify(set_status(n3, "connected"), "updated"),
                        "interfaces")

\* the states switch_to_random_interface may leave
switch_to_random_interface(n) ==
    LET servers == (DOMAIN n.interfaces) \ {n.default_server} IN
    IF servers = {} THEN {n}
    ELSE {switch_to_interface(n, server) : server \in servers}

\* switch_lagging_interface that takes any ready interface, whatever its tip
switch_lagging_interface_unfiltered(n) ==
    IF server_is_lagging(n) /\ n.auto_connect
    THEN IF DOMAIN n.interfaces = {} THEN {n}
         ELSE {switch_to_interface(n, choice) : choice \in DOMAIN n.interfaces}
    ELSE {n}

\* the states switch_lagging_interface may leave
switch_lagging_interface(n) ==
    IF server_is_lagging(n) /\ n.auto_connect
    THEN LET filtered == {s \in DOMAIN n.interfaces :
                              n.iface[n.interfaces[s]].tip = get_local_height(n)}
         IN IF filtered = {} THEN {n}
            ELSE {switch_to_interface(n, choice) : choice \in filtered}
    ELSE {n}

RECURSIVE close_all(_, _)
close_all(n, ids) ==
    IF ids = {} THEN n
    ELSE close_all(close_interface(n, Min(ids)), ids \ {Min(ids)})

\* stop_network that leaves `connecting` and the queue as they are
stop_network_keeps_connecting(n) ==
    LET n1 == close_all(n, Range(n.interfaces))
        n2 == IF n1.interface # None
              THEN close_interface(n1, n1.interface) ELSE n1
    IN IF n2.interface # None \/ DOMAIN n2.interfaces # {}
       THEN [n2 EXCEPT !.assertion_error = TRUE]
       ELSE n2

stop_network(n) ==
    LET n1 == close_all(n, Range(n.interfaces))
        n2 == IF n1.interface # None
              THEN close_interface(n1, n1.interface) ELSE n1
    IN IF n2.interface # None \/ DOMAIN n2.interfaces # {}
       THEN [n2 EXCEPT !.assertion_error = TRUE]
       ELSE [n2 EXCEPT !.connecting = {}, !.socket_queue = <<>>]

start_network(n, proto, p) ==
    IF \/ n.interface # None \/ DOMAIN n.interfaces # {}
       \/ n.connecting # {} \/ n.socket_queue # <<>>
    THEN [n EXCEPT !.assertion_error = TRUE]
    ELSE LET n1 == [n EXCEPT !.disconnected_servers = {}, !.protocol = proto]
         IN start_interface(set_proxy(n1, p), n1.default_server)

\* deserialize_server(server)[2]: every server of the model speaks SSL
protocol_of(server) == "s"

\* set_parameters once the parameters are accepted and persisted: the
\* states it may leave
set_parameters_apply(n, server_str, p, auto) ==
    LET n1 == [n EXCEPT !.auto_connect = auto] IN
    IF n1.proxy # p \/ n1.protocol # protocol_of(server_str)
    THEN LET s == stop_network(n1) IN
         IF s.assertion_error THEN {s}
         ELSE {start_network([s EXCEPT !.default_server = server_str],
                             protocol_of(server_str), p)}
    ELSE IF n1.default_server # server_str
    THEN {switch_to_interface(n1, server_str)}
    ELSE {notify(m, "updated") : m \in switch_lagging_interface(n1)}

\* server strings that deserialize_server refuses (port, protocol)
BadServers == {"a:x:s", "a:50002:x"}

deserialize_server_raises(server_str) == server_str \notin Servers

NetworkParameters(server_str, p, auto) ==
    [server |-> server_str, proxy |-> p, auto_connect |-> auto]

\* the sanitizing try block raises (and the except returns)
sanitize_raises(net_params) ==
    \/ deserialize_server_raises(net_params.server)
    \/ /\ net_params.proxy # NoProxy
       /\ \/ \A k \in 1..Len(proxy_modes) :
                <<proxy_modes[k]>> # net_params.proxy["mode"]
          \/ "port" \notin DOMAIN net_params.proxy
          \/ ~int_parses(net_params.proxy["port"])

\* the config.set_key calls of set_parameters
set_keys(n, net_params) ==
    [n EXCEPT !.config =
        <<<<"auto_connect", <<net_params.auto_connect>>>>,
          <<"proxy", serialize_proxy(net_params.proxy)>>,
          <<"server", <<net_params.server>>>>>>]

\* set_parameters without the check that the configuration took the writes
set_parameters_unchecked(n, net_params, rejected) ==
    IF serialize_proxy_raises(net_params.proxy)
    THEN {[n EXCEPT !.raised = "TypeError"]}
    ELSE IF sanitize_raises(net_params) THEN {n}
    ELSE set_parameters_apply(set_keys(n, net_params), net_params.server,
                              net_params.proxy, net_params.auto_connect)

\* set_parameters: the states it may leave. rejected holds the keys among
\* 'server' and 'proxy' that config.get does not give back as written.
set_parameters(n, net_params, rejected) ==
    IF serialize_proxy_raises(net_params.proxy)
    THEN {[n EXCEPT !.raised = "TypeError"]}
    ELSE IF sanitize_raises(net_params) THEN {n}
    ELSE IF rejected # {} THEN {set_keys(n, net_params)}
    ELSE set_parameters_apply(set_keys(n, net_params), net_params.server,
                              net_params.proxy, net_params.auto_connect)

\* new_interface_ready with the `finally` that discards the server from
\* connecting left out
new_interface_ready_keeps_connecting(n, i) ==
    LET server == n.iface[i].server
        n1 == [n EXCEPT !.tasks = @ \ {i}, !.iface[i].ready = TRUE]
        n2 == [n1 EXCEPT !.interfaces = Put(@, server, i)]
        n3 == IF server = n2.default_server
              THEN switch_to_interface(n2, server) ELSE n2
    IN notify(n3, "interfaces")

\* new_interface, after `await interface.ready` returned in time, up to
\* `self.interfaces[server] = interface`
new_interface_inserted(n, i) ==
    LET server == n.iface[i].server
        n1 == [n EXCEPT !.tasks = @ \ {i},
                        !.iface[i].ready = TRUE,
                        !.connecting = @ \ {server}]
    IN [n1 EXCEPT !.interfaces = Put(@, server, i)]

\* new_interface, after `await interface.ready` returned in time
new_interface_ready(n, i) ==
    LET server == n.iface[i].server
        n2 == new_interface_inserted(n, i)
        n3 == IF server = n2.default_server
              THEN switch_to_interface(n2, server) ELSE n2
    IN notify(n3, "interfaces")

\* new_interface_failed with the `finally` that discards the server from
\* connecting left out
new_interface_failed_keeps_connecting(n, i) ==
    connection_down([n EXCEPT !.tasks = @ \ {i}], n.iface[i].server)

\* new_interface, after `await interface.ready` raised or timed out
new_interface_failed(n, i) ==
    LET server == n.iface[i].server
        n1 == connection_down([n EXCEPT !.tasks = @ \ {i}], server)
    IN [n1 EXCEPT !.connecting = @ \ {server}]

\* broadcast_transaction(tx): txid is tx.txid(); answer is what the await
\* of send_request gives: a result of some JSON type, asyncio.TimeoutError,
\* or another exception whose str() is answer.value. The outcome is the
\* pair returned, or the exception that leaves the coroutine.
broadcast_transaction(n, txid, answer) ==
    IF n.interface = None
    THEN [raised |-> "", ok |-> FALSE,
          message |-> <<"error: ",
                        "'NoneType' object has no attribute 'session'">>]
    ELSE IF answer.kind = "timeout"
    THEN [raised |-> "", ok |-> FALSE,
          message |-> <<"error: ", "operation timed out">>]
    ELSE IF answer.kind = "exception"
    THEN [raised |-> "", ok |-> FALSE,
          message |-> <<"error: ", answer.value>>]
    ELSE IF ~(answer.type = "str" /\ answer.value = txid)
    THEN IF answer.type = "str"
         THEN [raised |-> "", ok |-> FALSE,
               message |-> <<"error: ", answer.value>>]
         ELSE [raised |-> "TypeError", ok |-> FALSE, message |-> <<>>]
    ELSE [raised |-> "", ok |-> TRUE, message |-> <<answer.value>>]

\* maintain_sessions: create_task(new_interface(server)) for the queue;
\* the task constructs its Interface with the proxy in force
RECURSIVE drain_queue(_)
drain_queue(n) ==
    IF n.socket_queue = <<>> THEN n
    ELSE LET server == Head(n.socket_queue)
             i == Min(IfaceIds \ DOMAIN n.iface)
             obj == [server |-> server, proxy |-> n.proxy, ready |-> FALSE,
                     tip |-> 0, exception |-> FALSE, closed |-> FALSE]
         IN drain_queue([n EXCEPT !.socket_queue = Tail(@),
                                  !.iface = Put(@, i, obj),
                                  !.tasks = @ \cup {i}])

\* maintain_sessions: connection_down for every interface with an exception
RECURSIVE remove_errored(_, _)
remove_errored(n, remove) ==
    IF remove = {} THEN n
    ELSE LET k == FirstServer(remove)
         IN remove_errored(connection_down(n, k), remove \ {k})

\* maintain_sessions up to the end of `for k in remove`
remove_step(n) ==
    LET n1 == drain_queue(n)
        remove == {k \in DOMAIN n1.interfaces :
                       n1.iface[n1.interfaces[k]].exception}
    IN remove_errored(n1, remove)

\* maintain_sessions: `for i in range(...): self.start_random_interface()`
RECURSIVE fill_loop(_, _)
fill_loop(n, k) ==
    IF k <= 0 THEN {n}
    ELSE UNION {fill_loop(m, k - 1) : m \in start_random_interface(n)}

\* fill_pool counting only the ready interfaces, not the connecting ones
fill_pool_ignoring_connecting(n) ==
    fill_loop(n, n.num_server - Cardinality(DOMAIN n.interfaces))

fill_pool(n) ==
    fill_loop(n, n.num_server - Cardinality(DOMAIN n.interfaces)
                     - Cardinality(n.connecting))

\* maintain_sessions: the main interface; when it is connected,
\* config.is_fee_estimates_update_required() may hold or not
maintain_main(n, server_due) ==
    IF ~is_connected(n)
    THEN IF n.auto_connect
         THEN IF ~is_connecting(n) THEN switch_to_random_interface(n) ELSE {n}
         ELSE IF n.default_server \in n.disconnected_servers
              THEN IF server_due
                   THEN {[n EXCEPT !.disconnected_servers =
                                       @ \ {n.default_server}]}
                   ELSE {n}
              ELSE {switch_to_interface(n, n.default_server)}
    ELSE {n, spawn(n, "request_fee_estimates")}

\* one iteration of maintain_sessions; nodes_due and server_due say whether
\* NODES_RETRY_INTERVAL and SERVER_RETRY_INTERVAL have elapsed
maintain_sessions(n, nodes_due, server_due) ==
    LET n2 == remove_step(n)
    IN UNION {maintain_main(IF nodes_due
                            THEN [m EXCEPT !.disconnected_servers = {}]
                            ELSE m, server_due) : m \in fill_pool(n2)}

\* ---------------------------------------------------------- request_chunk
Callers == 1..NumCallers
NoTip == -1                       \* tip=None
Heights == {ChunkSize - 1, ChunkSize}
Tips == {NoTip, 0, ChunkSize, ChunkSize + 1}

\* requested_chunks and the calls as one record
Chunks == [requested_chunks |-> requested_chunks, calls |-> chunk_calls]

IdleCall ==
    [pc |-> "idle", height |-> 0, tip |-> NoTip, can_return_early |-> FALSE,
     params |-> <<>>, result |-> <<>>]

chunk_index(height) == height \div ChunkSize

\* size with the chunk's last header counted twice
chunk_size_inclusive(index, tip) ==
    IF tip = NoTip THEN ChunkSize
    ELSE LET size == IF ChunkSize < tip - index * ChunkSize + 1
                     THEN ChunkSize ELSE tip - index * ChunkSize + 1
         IN IF size > 0 THEN size ELSE 0

\* size = 2016; if tip is not None: size = max(min(size, tip - index*2016), 0)
chunk_size(index, tip) ==
    IF tip = NoTip THEN ChunkSize
    ELSE LET size == IF ChunkSize < tip - index * ChunkSize
                     THEN ChunkSize ELSE tip - index * ChunkSize
         IN IF size > 0 THEN size ELSE 0

\* request_chunk_call that sends without recording the index
request_chunk_call_unrecorded(ch, c, height, tip, can_return_early) ==
    LET index == chunk_index(height)
        call == [pc |-> "returned", height |-> height, tip |-> tip,
                 can_return_early |-> can_return_early, params |-> <<>>,
                 result |-> <<>>]
    IN IF can_return_early /\ index \in ch.requested_chunks
       THEN [ch EXCEPT !.calls[c] = [IdleCall EXCEPT !.pc = "returned"]]
       ELSE [ch EXCEPT !.calls[c] =
                [call EXCEPT !.pc = "awaiting",
                             !.params = <<index * ChunkSize,
                                          chunk_size(index, tip)>>]]

\* request_chunk_call that never returns early
request_chunk_call_always_sends(ch, c, height, tip, can_return_early) ==
    LET index == chunk_index(height)
    IN [ch EXCEPT !.requested_chunks = @ \cup {index},
                  !.calls[c] =
                      [pc |-> "awaiting", height |-> height, tip |-> tip,
                       can_return_early |-> can_return_early,
                       params |-> <<index * ChunkSize, chunk_size(index, tip)>>,
                       result |-> <<>>]]

\* request_chunk up to `await session.send_request(...)`
request_chunk_call(ch, c, height, tip, can_return_early) ==
    LET index == chunk_index(height)
        call == [pc |-> "returned", height |-> height, tip |-> tip,
                 can_return_early |-> can_return_early, params |-> <<>>,
                 result |-> <<>>]
    IN IF can_return_early /\ index \in ch.requested_chunks
       THEN [ch EXCEPT !.calls[c] = [IdleCall EXCEPT !.pc = "returned"]]
       ELSE [ch EXCEPT !.requested_chunks = @ \cup {index},
                       !.calls[c] =
                           [call EXCEPT !.pc = "awaiting",
                                        !.params = <<index * ChunkSize,
                                                     chunk_size(index, tip)>>]]

\* request_chunk after send_request returned res; conn is what
\* blockchain().connect_chunk(index, res['hex']) answers
request_chunk_reply(ch, c, conn, count) ==
    LET index == chunk_index(ch.calls[c].height)
    IN [ch EXCEPT !.requested_chunks = @ \ {index},
                  !.calls[c] = [IdleCall EXCEPT
                      !.pc = "returned",
                      !.result = IF conn THEN <<conn, count>> ELSE <<conn, 0>>]]

\* request_chunk after send_request raised (or the task was cancelled)
request_chunk_error(ch, c) ==
    LET index == chunk_index(ch.calls[c].height)
    IN [ch EXCEPT !.requested_chunks = @ \ {index},
                  !.calls[c] = [IdleCall EXCEPT !.pc = "raised"]]

\* the callers whose blockchain.block.headers RPC for index is in flight
InFlight(ch, index) ==
    {c \in Callers : /\ ch.calls[c].pc = "awaiting"
                     /\ ch.calls[c].params[1] = index * ChunkSize}

SetChunks(ch) ==
    /\ requested_chunks' = ch.requested_chunks
    /\ chunk_calls' = ch.calls
    /\ UNCHANGED <<plain_callers, netvars, syncvars, servervars, callvars,
                   bootvars>>

\* ----------------------------------------------------------- Synchronizer
Addrs == {"X"}                    \* wallet.get_addresses()
TxIds == 1..MaxTxs                \* transaction hashes
NoStatus == <<>>                  \* the status None

\* the history the server holds once it knows k transactions
HeightOf(tx_hash) == 99 + tx_hash
ServerHistory(k) == [i \in 1..k |-> <<i, HeightOf(i)>>]

\* the string the digest is taken of, as its sequence of pieces
RECURSIVE status_string(_)
status_string(h) ==
    IF h = <<>> THEN <<>>
    ELSE <<h[1][1], ":", h[1][2], ":">> \o status_string(Tail(h))

history_status(h) ==
    IF h = <<>> THEN NoStatus ELSE <<"sha256", status_string(h)>>

address_to_scripthash(addr) == <<"scripthash", addr>>

\* The Synchronizer and its wallet as one record.
Sync ==
    [wallet_history |-> wallet_history,
     wallet_transactions |-> wallet_transactions,
     wallet_up_to_date |-> wallet_up_to_date,
     requested_tx |-> requested_tx,
     requested_histories |-> requested_histories,
     requested_addrs |-> requested_addrs,
     scripthash_to_address |-> scripthash_to_address,
     add_queue |-> add_queue, status_queue |-> status_queue,
     tasks |-> sync_tasks,
     \* filled during a handler: the calls of wallet methods and the
     \* events given to the network
     wallet_calls |-> <<>>, events |-> <<>>]

\* a suspended coroutine: which one, where it waits, and its arguments
Task(kind, pc, addr, status, tx_hash, parent) ==
    [kind |-> kind, pc |-> pc, addr |-> addr, status |-> status,
     tx_hash |-> tx_hash, parent |-> parent, group_failed |-> FALSE]

MainTask(pc) == Task("main", pc, "", NoStatus, 0, "")

\* the get_transaction tasks of the TaskGroup that parent waits for
Children(s, parent) ==
    {t \in s.tasks : t.kind = "get_transaction" /\ t.parent = parent}

IsGroupOwner(t, parent) ==
    \/ t.kind = "main" /\ parent = "main"
    \/ t.kind = "on_address_status" /\ t.addr = parent

is_up_to_date(s) ==
    /\ s.requested_addrs = {}
    /\ DOMAIN s.requested_histories = {}
    /\ DOMAIN s.requested_tx = {}

add(s, addr) ==
    [s EXCEPT !.requested_addrs = @ \cup {addr},
              !.add_queue = Append(@, addr)]

\* request_missing_txs up to the await of its TaskGroup: the hashes are
\* entered in requested_tx and a get_transaction task is spawned for each
RECURSIVE request_missing_txs(_, _, _)
request_missing_txs(s, hist, parent) ==
    IF hist = <<>> THEN s
    ELSE LET tx_hash == hist[1][1]
             tx_height == hist[1][2]
         IN IF \/ tx_hash \in DOMAIN s.requested_tx
               \/ tx_hash \in s.wallet_transactions
            THEN request_missing_txs(s, Tail(hist), parent)
            ELSE request_missing_txs(
                    [s EXCEPT !.requested_tx = Put(@, tx_hash, tx_height),
                              !.tasks = @ \cup {Task("get_transaction",
                                  "transaction.get", "", NoStatus, tx_hash,
                                  parent)}],
                    Tail(hist), parent)

\* get_transaction that does not compare the txid with the hash asked for
get_transaction_result_unvalidated(s, t, result) ==
    IF ~result.deserializes THEN [s EXCEPT !.tasks = @ \ {t}]
    ELSE [s EXCEPT !.requested_tx = Drop(@, t.tx_hash),
                   !.wallet_transactions = @ \cup {t.tx_hash},
                   !.wallet_calls =
                        Append(@, <<"receive_tx_callback", t.tx_hash,
                                    s.requested_tx[t.tx_hash]>>),
                   !.events = Append(@, <<"new_transaction", t.tx_hash>>),
                   !.tasks = @ \ {t}]

\* get_transaction resumes with the result of blockchain.transaction.get;
\* result tells whether it deserializes and the txid it then has
get_transaction_result(s, t, result) ==
    IF ~result.deserializes THEN [s EXCEPT !.tasks = @ \ {t}]
    ELSE IF t.tx_hash # result.txid THEN [s EXCEPT !.tasks = @ \ {t}]
    ELSE [s EXCEPT !.requested_tx = Drop(@, t.tx_hash),
                   !.wallet_transactions = @ \cup {t.tx_hash},
                   !.wallet_calls =
                        Append(@, <<"receive_tx_callback", t.tx_hash,
                                    s.requested_tx[t.tx_hash]>>),
                   !.events = Append(@, <<"new_transaction", t.tx_hash>>),
                   !.tasks = @ \ {t}]

\* blockchain.transaction.get raises in get_transaction (transport error,
\* RPC error, cancellation): the task ends and its TaskGroup has a failure
get_transaction_raised(s, t) ==
    [s EXCEPT !.tasks = {IF IsGroupOwner(p, t.parent)
                         THEN [p EXCEPT !.group_failed = TRUE] ELSE p :
                         p \in @ \ {t}}]

\* on_address_status that does not compare the status with the wallet's
on_address_status_unchecked(s, addr, status) ==
    IF addr \in DOMAIN s.requested_histories THEN s
    ELSE [s EXCEPT !.requested_histories = Put(@, addr, status),
                   !.tasks = @ \cup {Task("on_address_status",
                       "get_history", addr, status, 0, "")}]

\* on_address_status that does not look into requested_histories
on_address_status_unguarded(s, addr, status) ==
    LET history == IF addr \in DOMAIN s.wallet_history
                   THEN s.wallet_history[addr] ELSE <<>>
    IN IF history_status(history) = status THEN s
       ELSE [s EXCEPT !.requested_histories = Put(@, addr, status),
                      !.tasks = @ \cup {Task("on_address_status",
                          "get_history", addr, status, 0, "")}]

\* on_address_status from its start to its first await
on_address_status(s, addr, status) ==
    LET history == IF addr \in DOMAIN s.wallet_history
                   THEN s.wallet_history[addr] ELSE <<>>
    IN IF history_status(history) = status THEN s
       ELSE IF addr \in DOMAIN s.requested_histories THEN s
       ELSE [s EXCEPT !.requested_histories = Put(@, addr, status),
                      !.tasks = @ \cup {Task("on_address_status",
                          "get_history", addr, status, 0, "")}]

\* the end of on_address_status: the request is removed
on_address_status_end(s, t) ==
    [s EXCEPT !.requested_histories = Drop(@, t.addr),
              !.events = Append(@, <<"updated">>),
              !.tasks = {p \in @ : ~(p.kind = t.kind /\ p.addr = t.addr)}]

\* on_address_status_result that stores the history without comparing its
\* digest with the status announced
on_address_status_result_unverified(s, t, result) ==
    LET hashes == {result[k][1] : k \in 1..Len(result)}
        hist == result
    IN IF Cardinality(hashes) # Len(result) THEN on_address_status_end(s, t)
       ELSE LET asked == request_missing_txs(
                    [s EXCEPT !.wallet_history = Put(@, t.addr, hist),
                              !.wallet_calls = Append(@,
                                  <<"receive_history_callback", t.addr>>)],
                    hist, t.addr)
            IN IF Children(asked, t.addr) = {}
               THEN on_address_status_end(asked, t)
               ELSE [asked EXCEPT !.tasks = (@ \ {t})
                        \cup {[t EXCEPT !.pc = "missing_txs"]}]

\* on_address_status resumes with the result of get_history
on_address_status_result(s, t, result) ==
    LET hashes == {result[k][1] : k \in 1..Len(result)}
        hist == result
    IN IF Cardinality(hashes) # Len(result) THEN on_address_status_end(s, t)
       ELSE IF history_status(hist) # t.status
       THEN on_address_status_end(s, t)
       ELSE LET asked == request_missing_txs(
                    [s EXCEPT !.wallet_history = Put(@, t.addr, hist),
                              !.wallet_calls = Append(@,
                                  <<"receive_history_callback", t.addr>>)],
                    hist, t.addr)
            IN IF Children(asked, t.addr) = {}
               THEN on_address_status_end(asked, t)
               ELSE [asked EXCEPT !.tasks = (@ \ {t})
                        \cup {[t EXCEPT !.pc = "missing_txs"]}]

\* an exception leaves on_address_status: nothing after the await runs
on_address_status_raised(s, t) ==
    [s EXCEPT !.tasks = {p \in @ : ~(p.kind = t.kind /\ p.addr = t.addr)}]

\* subscribe_to_address from its start to its await
subscribe_to_address(s, addr) ==
    [s EXCEPT !.scripthash_to_address =
                  Put(@, address_to_scripthash(addr), addr),
              !.tasks = @ \cup {Task("subscribe_to_address", "subscribe",
                                     addr, NoStatus, 0, "")}]

\* session.subscribe returns: it has put the first status on status_queue
subscribe_to_address_result(s, t, status) ==
    [s EXCEPT !.status_queue =
                  Append(@, <<address_to_scripthash(t.addr), status>>),
              !.requested_addrs = @ \ {t.addr},
              !.tasks = @ \ {t}]

subscribe_to_address_raised(s, t) == [s EXCEPT !.tasks = @ \ {t}]

\* main after its first TaskGroup: the addresses are added, the loop starts
RECURSIVE add_all(_, _)
add_all(s, addrs) ==
    IF addrs = {} THEN s
    ELSE LET addr == CHOOSE a \in addrs : TRUE
         IN add_all(add(s, addr), addrs \ {addr})

main_bootstrap(s) ==
    LET added == add_all(s, Addrs)
    IN [added EXCEPT !.tasks = {p \in @ : p.kind # "main"}
                                  \cup {MainTask("loop")}]

RECURSIVE request_all_missing(_, _)
request_all_missing(s, addrs) ==
    IF addrs = {} THEN s
    ELSE LET addr == CHOOSE a \in addrs : TRUE
         IN request_all_missing(
                request_missing_txs(s, s.wallet_history[addr], "main"),
                addrs \ {addr})

\* main from its start to its first await
main(s) ==
    LET asked == request_all_missing(s, DOMAIN s.wallet_history)
    IN IF Children(asked, "main") = {} THEN main_bootstrap(asked)
       ELSE [asked EXCEPT !.tasks = {p \in @ : p.kind # "main"}
                                       \cup {MainTask("missing_txs")}]

\* an exception leaves main
main_raised(s) == [s EXCEPT !.tasks = {p \in @ : p.kind # "main"}]

\* one round of the main loop
main_loop(s) ==
    LET synced == [s EXCEPT !.wallet_calls = Append(@, <<"synchronize">>)]
    IN IF is_up_to_date(synced) # synced.wallet_up_to_date
       THEN [synced EXCEPT !.wallet_up_to_date = is_up_to_date(synced),
                           !.wallet_calls = Append(@, <<"set_up_to_date">>),
                           !.events = Append(@, <<"updated">>)]
       ELSE synced

SetSync(s) ==
    /\ wallet_history' = s.wallet_history
    /\ wallet_transactions' = s.wallet_transactions
    /\ wallet_up_to_date' = s.wallet_up_to_date
    /\ requested_tx' = s.requested_tx
    /\ requested_histories' = s.requested_histories
    /\ requested_addrs' = s.requested_addrs
    /\ scripthash_to_address' = s.scripthash_to_address
    /\ add_queue' = s.add_queue
    /\ status_queue' = s.status_queue
    /\ sync_tasks' = s.tasks
    /\ UNCHANGED <<netvars, chunkvars, callvars, bootvars>>

\* ----------------------------------------------------------------- Init
\* the Network after __init__ and start_network: config gives oneserver,
\* server, proxy, auto_connect
StartedNetworks ==
    {start_network([default_server |-> server, interface |-> None,
                    interfaces |-> EmptyMap, connecting |-> {},
                    socket_queue |-> <<>>, disconnected_servers |-> {},
                    auto_connect |-> auto,
                    num_server |-> IF oneserver THEN 0 ELSE PoolSize,
                    protocol |-> "s", proxy |-> NoProxy,
                    connection_status |-> "none",
                    iface |-> EmptyMap, tasks |-> {}, events |-> <<>>,
                    config |-> <<>>, raised |-> "", spawned |-> <<>>,
                    assertion_error |-> FALSE],
                   protocol_of(server), p) :
        oneserver \in BOOLEAN, server \in Servers, p \in Proxies,
        auto \in BOOLEAN}

NetIs(n) ==
    /\ default_server = n.default_server
    /\ interface = n.interface
    /\ interfaces = n.interfaces
    /\ connecting = n.connecting
    /\ socket_queue = n.socket_queue
    /\ disconnected_servers = n.disconnected_servers
    /\ auto_connect = n.auto_connect
    /\ num_server = n.num_server
    /\ protocol = n.protocol
    /\ proxy = n.proxy
    /\ connection_status = n.connection_status
    /\ iface = n.iface
    /\ tasks = n.tasks
    /\ assertion_error = n.assertion_error

NetInit == \E n \in StartedNetworks : NetIs(n)

\* --------------------------------------------------------------- actions
\* What the Interface objects report when a handler reads them: tip is
\* moved by header notifications and exception is set when the driver of
\* the interface fails, both outside the Network; a handler reads them once.
Open == {i \in DOMAIN iface : iface[i].ready /\ ~iface[i].closed}

ObserveTips(n, tips) ==
    [n EXCEPT !.iface = [i \in DOMAIN @ |->
        IF i \in DOMAIN tips THEN [@[i] EXCEPT !.tip = tips[i]] ELSE @[i]]]

ObserveExceptions(n, errored) ==
    [n EXCEPT !.iface = [i \in DOMAIN @ |->
        [@[i] EXCEPT !.exception = (i \in errored)]]]

\* one iteration of the maintain_sessions loop
MaintainSessions ==
    /\ Len(socket_queue) <= Cardinality(IfaceIds \ DOMAIN iface)
    /\ \E errored \in SUBSET Open, nodes_due \in BOOLEAN, server_due \in BOOLEAN :
          \E n \in maintain_sessions(ObserveExceptions(Net, errored),
                                     nodes_due, server_due) :
              SetNet(n)

\* a new_interface task resumes: `ready` completed
NewInterfaceReady ==
    \E i \in tasks : \E n \in {new_interface_ready(Net, i)} : SetNet(n)

\* a new_interface task resumes: `ready` failed or timed out
NewInterfaceFailed ==
    \E i \in tasks : \E n \in {new_interface_failed(Net, i)} : SetNet(n)

\* calls of set_parameters: what the interfaces report during the call,
\* the parameters, and the keys the configuration does not take
SetParametersCall(tips, net_params, rejected) ==
    [tips |-> tips, net_params |-> net_params, rejected |-> rejected]

\* valid parameters and a configuration that takes them
\* (the tips are read by switch_lagging_interface only, l.514 and l.527:
\* they are enumerated for the calls that keep server and proxy and set
\* auto_connect)
AcceptedCalls ==
    {SetParametersCall(tips, NetworkParameters(default_server, proxy, TRUE),
                       {}) : tips \in [Open -> TipValues]}
    \cup {SetParametersCall([i \in Open |-> LocalHeight],
                            NetworkParameters(server, p, auto), {}) :
             server \in Servers, p \in Proxies, auto \in BOOLEAN}

\* a bad server, a bad proxy, or a configuration that keeps its values
RefusedCalls ==
    LET tips == [i \in Open |-> LocalHeight] IN
    {SetParametersCall(tips, NetworkParameters(server, NoProxy, TRUE), {}) :
        server \in BadServers}
    \cup {SetParametersCall(tips, NetworkParameters(default_server, p, TRUE),
                            {}) : p \in InvalidProxies}
    \cup {SetParametersCall(tips,
                            NetworkParameters(default_server, NoProxy, TRUE),
                            rejected) :
            rejected \in (SUBSET {"server", "proxy"}) \ {{}}}

\* the user (GUI, daemon) changes the parameters
SetParameters ==
    \E call \in AcceptedCalls \cup RefusedCalls :
        \E n \in set_parameters(ObserveTips(Net, call.tips), call.net_params,
                                call.rejected) :
            SetNet(n)

NetNext ==
    \/ MaintainSessions
    \/ NewInterfaceReady
    \/ NewInterfaceFailed
    \/ SetParameters

\* a caller invokes request_chunk
RequestChunk ==
    \E c \in Callers, height \in Heights, tip \in Tips,
       can_return_early \in {TRUE} \cup {b \in {FALSE} : plain_callers} :
        /\ chunk_calls[c].pc # "awaiting"
        /\ SetChunks(request_chunk_call(Chunks, c, height, tip,
                                        can_return_early))

\* the server answers a blockchain.block.headers request
ChunkReply ==
    \E c \in Callers, conn \in BOOLEAN :
        /\ chunk_calls[c].pc = "awaiting"
        /\ SetChunks(request_chunk_reply(Chunks, c, conn,
                                         chunk_calls[c].params[2]))

\* a blockchain.block.headers request fails
ChunkError ==
    \E c \in Callers :
        /\ chunk_calls[c].pc = "awaiting"
        /\ SetChunks(request_chunk_error(Chunks, c))

ChunkIdle ==
    /\ requested_chunks = {}
    /\ chunk_calls = [c \in Callers |-> IdleCall]
    /\ plain_callers = FALSE

ChunkInit ==
    /\ requested_chunks = {}
    /\ chunk_calls = [c \in Callers |-> IdleCall]
    /\ plain_callers \in BOOLEAN

ChunkNext == RequestChunk \/ ChunkReply \/ ChunkError

\* the Synchronizer before main runs, with no server events
SyncIdle ==
    /\ wallet_history = [addr \in Addrs |-> <<>>]
    /\ wallet_transactions = {}
    /\ wallet_up_to_date = FALSE
    /\ requested_tx = EmptyMap /\ requested_histories = EmptyMap
    /\ requested_addrs = {} /\ scripthash_to_address = EmptyMap
    /\ add_queue = <<>> /\ status_queue = <<>>
    /\ sync_tasks = {MainTask("start")}
    /\ server_history = [addr \in Addrs |-> <<>>]
    /\ subscriptions = {} /\ last_pushed_status = EmptyMap

\* no call of the proxy functions or of broadcast_transaction yet
Pending == [pending |-> TRUE]

NoBroadcast ==
    [main |-> None, txid |-> "", answer |-> [kind |-> "none"],
     result |-> [raised |-> "", ok |-> FALSE, message |-> <<>>]]

EventIdle == callbacks = <<>> /\ dispatch = Pending

RecentIdle == recent_servers = <<>> /\ last_server = 0 /\ added_servers = {}

ProxyIdle ==
    /\ proxy_arg = NoProxy /\ proxy_str = NoStr /\ proxy_out = Pending
    /\ broadcast = NoBroadcast

CallIdle == ProxyIdle /\ EventIdle /\ RecentIdle

\* nobody listens to the events
BootIdle == event_log = <<>> /\ info_tasks = <<>>

\* the Network is constructed; nobody calls request_chunk, no Synchronizer
\* runs, nothing else is called
Init == NetInit /\ ChunkIdle /\ SyncIdle /\ CallIdle /\ BootIdle

Spec == Init /\ [][NetNext]_vars

\* ---------------------------------------------------------- RecoverSpec
\* The Network while every known server accepts connections and nobody
\* calls set_parameters: a connection is lost only while there is a main
\* interface, and every new_interface task sees `ready` complete.

\* an iteration of maintain_sessions in which no interface has failed
RecoverTick ==
    /\ Len(socket_queue) <= Cardinality(IfaceIds \ DOMAIN iface)
    /\ \E nodes_due \in BOOLEAN, server_due \in BOOLEAN :
          \E n \in maintain_sessions(ObserveExceptions(Net, {}),
                                     nodes_due, server_due) :
              SetNet(n)

\* the iteration after NODES_RETRY_INTERVAL and SERVER_RETRY_INTERVAL
\* have elapsed
RetryTick ==
    /\ Len(socket_queue) <= Cardinality(IfaceIds \ DOMAIN iface)
    /\ \E n \in maintain_sessions(ObserveExceptions(Net, {}), TRUE, TRUE) :
          SetNet(n)

\* an iteration of maintain_sessions that finds failed interfaces, while
\* the main interface is connected
ConnectionLost ==
    /\ is_connected(Net)
    /\ Len(socket_queue) <= Cardinality(IfaceIds \ DOMAIN iface)
    /\ \E errored \in SUBSET Open \ {{}} :
       \E nodes_due \in BOOLEAN, server_due \in BOOLEAN :
          \E n \in maintain_sessions(ObserveExceptions(Net, errored),
                                     nodes_due, server_due) :
              SetNet(n)

RecoverNext == RecoverTick \/ ConnectionLost \/ NewInterfaceReady

\* the loop of maintain_sessions keeps running and time passes; a server
\* that accepts the connection completes `ready`
RecoverSpec ==
    Init /\ [][RecoverNext]_vars /\ WF_vars(RetryTick)
        /\ WF_vars(NewInterfaceReady)

\* the Network at rest, for the specifications of its parts
NetIdle ==
    /\ default_server = "a" /\ interface = None /\ interfaces = EmptyMap
    /\ connecting = {} /\ socket_queue = <<>> /\ disconnected_servers = {}
    /\ auto_connect = TRUE /\ num_server = PoolSize /\ protocol = "s"
    /\ proxy = NoProxy /\ connection_status = "none" /\ iface = EmptyMap
    /\ tasks = {} /\ assertion_error = FALSE

ChunkSpecInit == NetIdle /\ ChunkInit /\ SyncIdle /\ CallIdle /\ BootIdle

ChunkSpec == ChunkSpecInit /\ [][ChunkNext]_vars

\* Synchronizer.__init__ for a wallet that holds a history from an earlier
\* run, with or without the transactions of that history
SyncInit ==
    \E known \in 0..(MaxTxs - 1), served \in 0..MaxTxs, have \in BOOLEAN :
        /\ known <= served
        /\ wallet_history = [addr \in Addrs |-> ServerHistory(known)]
        /\ wallet_transactions = IF have THEN 1..known ELSE {}
        /\ wallet_up_to_date = FALSE
        /\ requested_tx = EmptyMap /\ requested_histories = EmptyMap
        /\ requested_addrs = {} /\ scripthash_to_address = EmptyMap
        /\ add_queue = <<>> /\ status_queue = <<>>
        /\ sync_tasks = {MainTask("start")}
        /\ server_history = [addr \in Addrs |-> ServerHistory(served)]
        /\ subscriptions = {} /\ last_pushed_status = EmptyMap

\* main starts
Main ==
    /\ MainTask("start") \in sync_tasks
    /\ SetSync(main(Sync))
    /\ UNCHANGED servervars

\* main leaves its first TaskGroup; when a get_transaction of the group has
\* raised, the group either passes the exception on or swallows it
MainBootstrap ==
    \E t \in sync_tasks :
        /\ t.kind = "main" /\ t.pc = "missing_txs"
        /\ Children(Sync, "main") = {}
        /\ \E raise \in {FALSE} \cup {b \in {TRUE} : t.group_failed} :
              SetSync(IF raise THEN main_raised(Sync)
                      ELSE main_bootstrap(Sync))
        /\ UNCHANGED servervars

\* main loop, every 0.1 s
MainLoop ==
    /\ MainTask("loop") \in sync_tasks
    /\ SetSync(main_loop(Sync))
    /\ UNCHANGED servervars

\* send_subscriptions takes an address and the spawned subscribe_to_address
\* runs to its await
SendSubscriptions ==
    /\ add_queue # <<>>
    /\ SetSync(subscribe_to_address([Sync EXCEPT !.add_queue = Tail(@)],
                                    Head(add_queue)))
    /\ UNCHANGED servervars

\* the server answers blockchain.scripthash.subscribe with the status of
\* the address and will push every later status
SubscribeResult ==
    \E t \in sync_tasks :
        /\ t.kind = "subscribe_to_address"
        /\ \E status \in {history_status(server_history[t.addr])} :
              /\ SetSync(subscribe_to_address_result(Sync, t, status))
              /\ last_pushed_status' = Put(last_pushed_status, t.addr, status)
        /\ subscriptions' = subscriptions \cup {address_to_scripthash(t.addr)}
        /\ UNCHANGED server_history

\* the server learns of a new transaction of an address and pushes the new
\* status to the subscriber
ServerNewTransaction ==
    \E addr \in Addrs :
        /\ Len(server_history[addr]) < MaxTxs
        /\ \E h \in {ServerHistory(Len(server_history[addr]) + 1)} :
              /\ server_history' = [server_history EXCEPT ![addr] = h]
              /\ IF address_to_scripthash(addr) \in subscriptions
                 THEN /\ SetSync([Sync EXCEPT !.status_queue =
                            Append(@, <<address_to_scripthash(addr),
                                        history_status(h)>>)])
                      /\ last_pushed_status' =
                            Put(last_pushed_status, addr, history_status(h))
                 ELSE /\ SetSync(Sync)
                      /\ UNCHANGED last_pushed_status
        /\ UNCHANGED subscriptions

\* handle_status takes a status and the spawned on_address_status runs to
\* its first await; the tasks start in the order of the queue
HandleStatus ==
    /\ status_queue # <<>>
    /\ LET h == Head(status_queue)[1]
           status == Head(status_queue)[2]
       IN SetSync(on_address_status([Sync EXCEPT !.status_queue = Tail(@)],
                                    scripthash_to_address[h], status))
    /\ UNCHANGED servervars

\* the server answers blockchain.scripthash.get_history with the history
\* it holds now
GetHistoryResult ==
    \E t \in sync_tasks :
        /\ t.kind = "on_address_status" /\ t.pc = "get_history"
        /\ SetSync(on_address_status_result(Sync, t, server_history[t.addr]))
        /\ UNCHANGED servervars

\* on_address_status leaves request_missing_txs; when a get_transaction of
\* the group has raised, the group either passes the exception on or
\* swallows it
MissingTxsDone ==
    \E t \in sync_tasks :
        /\ t.kind = "on_address_status" /\ t.pc = "missing_txs"
        /\ Children(Sync, t.addr) = {}
        /\ \E raise \in {FALSE} \cup {b \in {TRUE} : t.group_failed} :
              SetSync(IF raise THEN on_address_status_raised(Sync, t)
                      ELSE on_address_status_end(Sync, t))
        /\ UNCHANGED servervars

\* what the server may answer to blockchain.transaction.get: the
\* transaction, bytes that do not deserialize, or another transaction
TransactionReplies(t) ==
    {[deserializes |-> TRUE, txid |-> t.tx_hash],
     [deserializes |-> FALSE, txid |-> 0],
     [deserializes |-> TRUE, txid |-> 0]}

\* the server answers blockchain.transaction.get
GetTransactionResult ==
    \E t \in sync_tasks :
        /\ t.kind = "get_transaction"
        /\ \E result \in TransactionReplies(t) :
              SetSync(get_transaction_result(Sync, t, result))
        /\ UNCHANGED servervars

\* a request raises in the coroutine that awaits it: transport error, RPC
\* error or cancellation
RequestRaised ==
    \E t \in sync_tasks :
        /\ \/ /\ t.kind = "get_transaction"
              /\ SetSync(get_transaction_raised(Sync, t))
           \/ /\ t.kind = "on_address_status" /\ t.pc = "get_history"
              /\ SetSync(on_address_status_raised(Sync, t))
           \/ /\ t.kind = "subscribe_to_address"
              /\ SetSync(subscribe_to_address_raised(Sync, t))
        /\ UNCHANGED servervars

SyncNext ==
    \/ Main
    \/ MainBootstrap
    \/ MainLoop
    \/ SendSubscriptions
    \/ SubscribeResult
    \/ ServerNewTransaction
    \/ HandleStatus
    \/ GetHistoryResult
    \/ MissingTxsDone
    \/ GetTransactionResult
    \/ RequestRaised

SyncSpecInit == NetIdle /\ ChunkIdle /\ SyncInit /\ CallIdle /\ BootIdle

SyncSpec == SyncSpecInit /\ [][SyncNext]_vars

\* ------------------------------------------------------------ CallSpec
\* strings the configuration may hold under 'proxy'
ConfigStrings ==
    {NoStr, <<"none">>, <<"None">>, <<"h">>, <<"socks4", "h">>,
     <<"h", "9050">>, <<"socks5", "h", "9050", "u", "pw">>}

\* what the await of send_request may give to broadcast_transaction
Txids == {"t1", "t2"}

Answers ==
    {[kind |-> "result", type |-> "str", value |-> v] :
        v \in Txids \cup {"the transaction was rejected"}}
    \cup {[kind |-> "result", type |-> "null", value |-> "null"],
          [kind |-> "timeout", type |-> "", value |-> ""],
          [kind |-> "exception", type |-> "", value |-> "connection lost"]}

CallInit ==
    /\ proxy_arg \in ValidProxies \cup {NoProxy}
    /\ proxy_str \in ConfigStrings
    /\ proxy_out = Pending
    /\ broadcast = NoBroadcast
    /\ EventIdle
    /\ RecentIdle

SerializeProxy ==
    /\ proxy_str' = serialize_proxy(proxy_arg)
    /\ proxy_out' = Pending
    /\ UNCHANGED <<proxy_arg, broadcast, eventvars, recentvars, netvars,
                   chunkvars, syncvars, servervars, bootvars>>

DeserializeProxy ==
    /\ proxy_out' = deserialize_proxy(proxy_str)
    /\ UNCHANGED <<proxy_arg, proxy_str, broadcast, eventvars, recentvars,
                   netvars, chunkvars, syncvars, servervars, bootvars>>

\* broadcast_transaction, with or without a main interface
BroadcastTransaction ==
    \E i \in {None, 1}, txid \in Txids, answer \in Answers :
        /\ broadcast' =
              [main |-> i, txid |-> txid,
               answer |-> IF i = None THEN [kind |-> "none"] ELSE answer,
               result |-> broadcast_transaction(
                              [Net EXCEPT !.interface = i], txid, answer)]
        /\ UNCHANGED <<proxy_arg, proxy_str, proxy_out, eventvars, recentvars,
                       netvars, chunkvars, syncvars, servervars, bootvars>>

CallNext == SerializeProxy \/ DeserializeProxy \/ BroadcastTransaction

CallSpecInit == NetIdle /\ ChunkIdle /\ SyncIdle /\ CallInit /\ BootIdle

CallSpec == CallSpecInit /\ [][CallNext]_vars

\* ----------------------------------------------------------- EventSpec

\* what a subscriber does when it is called: a plain function returns,
\* raises, or unregisters itself; a coroutine function is scheduled on the
\* event loop
CallbackKinds == {"returns", "raises", "unregisters", "coroutine"}

\* list.remove: the first occurrence goes
RECURSIVE list_remove(_, _)
list_remove(list, x) ==
    IF list = <<>> THEN <<>>
    ELSE IF Head(list) = x THEN Tail(list)
    ELSE <<Head(list)>> \o list_remove(Tail(list), x)

InList(list, x) == \E k \in 1..Len(list) : list[k] = x

register_callback(list, callback) == Append(list, callback)

unregister_callback(list, callback) ==
    IF InList(list, callback) THEN list_remove(list, callback) ELSE list

\* trigger_callback: the loop over the copy taken under callback_lock.
\* d.callbacks is self.callbacks[event], d.called the subscribers called
\* so far with whether callback_lock was held, d.raised whether an
\* exception has left the loop
RECURSIVE dispatch_loop(_, _, _)
dispatch_loop(d, snapshot, k) ==
    IF k > Len(snapshot) THEN d
    ELSE LET called == [d EXCEPT !.called = Append(@, <<k, d.locked>>)] IN
         CASE snapshot[k] = "coroutine" ->
                 dispatch_loop([called EXCEPT !.scheduled = Append(@, k)],
                               snapshot, k + 1)
           [] snapshot[k] = "returns" -> dispatch_loop(called, snapshot, k + 1)
           [] snapshot[k] = "unregisters" ->
                 dispatch_loop(
                     [called EXCEPT !.callbacks =
                                        unregister_callback(@, "unregisters")],
                     snapshot, k + 1)
           [] snapshot[k] = "raises" -> [called EXCEPT !.raised = TRUE]

trigger_callback(list) ==
    LET locked == [callbacks |-> list, called |-> <<>>, scheduled |-> <<>>,
                   raised |-> FALSE, locked |-> TRUE]
        snapshot == locked.callbacks
        released == [locked EXCEPT !.locked = FALSE]
    IN [snapshot |-> snapshot,
        result |-> dispatch_loop(released, snapshot, 1)]

EventInit == callbacks = <<>> /\ dispatch = Pending

EventOthers ==
    UNCHANGED <<proxy_arg, proxy_str, proxy_out, broadcast, recentvars,
                netvars, chunkvars, syncvars, servervars, bootvars>>

RegisterCallback ==
    \E callback \in CallbackKinds :
        /\ Len(callbacks) < MaxCallbacks
        /\ callbacks' = register_callback(callbacks, callback)
        /\ UNCHANGED dispatch
        /\ EventOthers

UnregisterCallback ==
    \E callback \in CallbackKinds :
        /\ callbacks' = unregister_callback(callbacks, callback)
        /\ UNCHANGED dispatch
        /\ EventOthers

\* the event is triggered
TriggerCallback ==
    /\ dispatch' = trigger_callback(callbacks)
    /\ callbacks' = dispatch'.result.callbacks
    /\ EventOthers

EventNext == RegisterCallback \/ UnregisterCallback \/ TriggerCallback

EventSpecInit ==
    NetIdle /\ ChunkIdle /\ SyncIdle /\ ProxyIdle /\ RecentIdle /\ BootIdle
        /\ EventInit

EventSpec == EventSpecInit /\ [][EventNext]_vars

\* ---------------------------------------------------------- RecentSpec

RecentServers == 1..(NumRecent + 1)

\* add_recent_server; save_recent_servers writes the list to the file and
\* changes no field
add_recent_server_untruncated(list, server) ==
    <<server>> \o (IF InList(list, server) THEN list_remove(list, server)
                   ELSE list)

add_recent_server(list, server) ==
    LET removed == IF InList(list, server) THEN list_remove(list, server)
                   ELSE list
        inserted == <<server>> \o removed
    IN SubSeq(inserted, 1, IF Len(inserted) < NumRecent THEN Len(inserted)
                           ELSE NumRecent)

\* read_recent_servers with no file
RecentInit == recent_servers = <<>> /\ last_server = 0 /\ added_servers = {}

AddRecentServer ==
    \E server \in RecentServers :
        /\ recent_servers' = add_recent_server(recent_servers, server)
        /\ last_server' = server
        /\ added_servers' = added_servers \cup {server}
        /\ UNCHANGED <<proxy_arg, proxy_str, proxy_out, broadcast, eventvars,
                       netvars, chunkvars, syncvars, servervars, bootvars>>

RecentNext == AddRecentServer

RecentSpecInit ==
    NetIdle /\ ChunkIdle /\ SyncIdle /\ ProxyIdle /\ EventIdle /\ BootIdle
        /\ RecentInit

RecentSpec == RecentSpecInit /\ [][RecentNext]_vars

\* ------------------------------------------------------------------ boot
\* The events of notify(): the keys of get_status_value
StatusKeys ==
    {"status", "banner", "fee", "fee_histogram", "updated", "servers",
     "interfaces"}

notified(events) == SelectSeq(events, LAMBDA e : e[1] \in StatusKeys)

\* a coroutine of request_server_info or request_fee_estimates, suspended
\* in the await of the request pc names
InfoTask(coroutine, pc) == [coroutine |-> coroutine, pc |-> pc]

\* the coroutine runs up to its first request: `await interface.ready`
\* returns at once for the main interface
info_start(coroutine) ==
    IF coroutine = "request_server_info"
    THEN InfoTask(coroutine, "server.banner")
    ELSE InfoTask(coroutine, "blockchain.estimatefee")

\* the reply of the awaited request arrives: the events notified and the
\* request awaited next ("done": the coroutine returned)
info_reply(t) ==
    CASE t.pc = "server.banner" ->
            [events |-> <<<<"banner", "">>>>,
             pc |-> "server.donation_address"]
      [] t.pc = "server.donation_address" ->
            [events |-> <<>>, pc |-> "server.peers.subscribe"]
      [] t.pc = "server.peers.subscribe" ->
            [events |-> <<<<"servers", "">>>>,
             pc |-> "blockchain.estimatefee"]
      [] t.pc = "blockchain.estimatefee" ->
            [events |-> <<<<"fee_histogram", "">>, <<"fee", "">>>>,
             pc |-> IF t.coroutine = "request_server_info"
                    THEN "blockchain.relayfee" ELSE "done"]
      [] t.pc = "blockchain.relayfee" ->
            [events |-> <<>>, pc |-> "done"]

RemoveAt(seq, k) ==
    [j \in 1..(Len(seq) - 1) |-> IF j < k THEN seq[j] ELSE seq[j + 1]]

\* a handler of the Network ran: its events are logged, the coroutines it
\* spawned are started
Observe(n) ==
    /\ Len(event_log) + Len(notified(n.events)) <= MaxLog
    /\ Len(info_tasks) + Len(n.spawned) <= MaxTasks
    /\ SetNetVars(n)
    /\ event_log' = event_log \o notified(n.events)
    /\ info_tasks' = info_tasks \o
                        [k \in 1..Len(n.spawned) |-> info_start(n.spawned[k])]
    /\ UNCHANGED <<chunkvars, syncvars, servervars, callvars>>

\* the Network starts with `oneserver`: one server is configured
BootInit ==
    \E n \in StartedNetworks :
        /\ n.num_server = 0
        /\ NetIs(n)
        /\ event_log = notified(n.events)
        /\ info_tasks = <<>>

BootMaintainSessions ==
    /\ Len(socket_queue) <= Cardinality(IfaceIds \ DOMAIN iface)
    /\ \E errored \in SUBSET Open, nodes_due \in BOOLEAN, server_due \in BOOLEAN :
          \E n \in maintain_sessions(ObserveExceptions(Net, errored),
                                     nodes_due, server_due) :
              Observe(n)

BootNewInterfaceReady ==
    \E i \in tasks : \E n \in {new_interface_ready(Net, i)} : Observe(n)

BootNewInterfaceFailed ==
    \E i \in tasks : \E n \in {new_interface_failed(Net, i)} : Observe(n)

\* the server answers the request a coroutine awaits
InfoReply ==
    \E k \in 1..Len(info_tasks) :
        \E r \in {info_reply(info_tasks[k])} :
            /\ Len(event_log) + Len(r.events) <= MaxLog
            /\ event_log' = event_log \o r.events
            /\ info_tasks' =
                  IF r.pc = "done" THEN RemoveAt(info_tasks, k)
                  ELSE [info_tasks EXCEPT ![k].pc = r.pc]
            /\ UNCHANGED <<netvars, chunkvars, syncvars, servervars,
                           callvars>>

\* the request a coroutine awaits raises, or the group of its interface
\* is cancelled
InfoFailed ==
    \E k \in 1..Len(info_tasks) :
        /\ info_tasks' = RemoveAt(info_tasks, k)
        /\ UNCHANGED <<event_log, netvars, chunkvars, syncvars, servervars,
                       callvars>>

BootNext ==
    \/ BootMaintainSessions
    \/ BootNewInterfaceReady
    \/ BootNewInterfaceFailed
    \/ InfoReply
    \/ InfoFailed

BootSpecInit == BootInit /\ ChunkIdle /\ SyncIdle /\ CallIdle

BootSpec == BootSpecInit /\ [][BootNext]_vars

\* ------------------------------------------------------- claims, Network
\* every state a handler may leave from the current one
SetParametersResults ==
    UNION {set_parameters(ObserveTips(Net, tips),
                          NetworkParameters(server, p, auto), {}) :
               tips \in [Open -> TipValues], server \in Servers,
               p \in Proxies, auto \in BOOLEAN}

MaintainSessionsResults ==
    IF Len(socket_queue) <= Cardinality(IfaceIds \ DOMAIN iface)
    THEN UNION {maintain_sessions(ObserveExceptions(Net, errored), nd, sd) :
                    errored \in SUBSET Open, nd \in BOOLEAN, sd \in BOOLEAN}
    ELSE {}

Count == Cardinality(DOMAIN interfaces) + Cardinality(connecting)

\* C1: no server is at the same time in `connecting` and a key of
\* `interfaces`.
C1_ConnectingDisjointInterfaces == connecting \cap DOMAIN interfaces = {}

\* a server is ready while a task of before a restart still awaits `ready`
\* for the same server, and another server is connecting
C1_Witness ==
    /\ connecting # {}
    /\ \E i \in tasks : iface[i].server \in DOMAIN interfaces

\* C2: the main interface is None or the very Interface object stored in
\* `interfaces` under its own server key.
C2_MainInterfaceInPool ==
    interface # None =>
        /\ iface[interface].server \in DOMAIN interfaces
        /\ interfaces[iface[interface].server] = interface

\* C3 as claimed: once |interfaces| + |connecting| is within num_server it
\* stays within num_server.
C3_PoolWithinNumServer == [][Count <= num_server => Count' <= num_server]_vars

\* the states in which maintain_sessions reaches its pool-filling loop
FillInputs ==
    IF Len(socket_queue) <= Cardinality(IfaceIds \ DOMAIN iface)
    THEN {LET n1 == drain_queue(ObserveExceptions(Net, errored))
          IN remove_errored(n1, {k \in DOMAIN n1.interfaces :
                                     n1.iface[n1.interfaces[k]].exception}) :
              errored \in SUBSET Open}
    ELSE {}

CountOf(n) == Cardinality(DOMAIN n.interfaces) + Cardinality(n.connecting)

\* C3 as amended: the pool filling of maintain_sessions never raises
\* |interfaces| + |connecting| above num_server: it leaves the sum at most
\* the larger of num_server and what it was, and it starts only servers
\* that are neither ready nor disconnected. (Connections to default_server
\* are started whatever the sum is.)
C3_FillWithinNumServer ==
    \A n \in FillInputs : \A m \in fill_pool(n) :
        /\ CountOf(m) <= (IF CountOf(n) > n.num_server
                          THEN CountOf(n) ELSE n.num_server)
        /\ m.connecting \ n.connecting
              \subseteq Servers \ (n.disconnected_servers \cup DOMAIN n.interfaces)

\* the pool filling has started a server other than default_server and the
\* pool is exactly full
C3_Witness ==
    /\ num_server > 0
    /\ Count = num_server
    /\ \E s \in connecting : s # default_server

AllParameters ==
    {NetworkParameters(server, p, auto) :
        server \in Servers \cup BadServers,
        p \in Proxies \cup InvalidProxies, auto \in BOOLEAN}

\* an invalid server triple, or a proxy with a mode outside proxy_modes,
\* a port that is no integer, or no port
InvalidParameters ==
    {np \in AllParameters :
        np.server \in BadServers \/ np.proxy \in InvalidProxies}

ValidParameters == AllParameters \ InvalidParameters

Rejections == (SUBSET {"server", "proxy"}) \ {{}}

\* the runtime state set_parameters works on
Runtime(n) ==
    <<n.auto_connect, n.proxy, n.protocol, n.default_server, n.interface,
      n.interfaces, n.connecting, n.socket_queue>>

\* C12: set_parameters with an invalid server or an invalid proxy returns
\* without raising, makes no config.set_key call and leaves the runtime
\* state as it is.
C12_InvalidParametersIgnored ==
    \A np \in InvalidParameters, rejected \in SUBSET {"server", "proxy"} :
        \A m \in set_parameters(Net, np, rejected) :
            /\ m.raised = ""
            /\ m.config = <<>>
            /\ Runtime(m) = Runtime(Net)

\* C13: when the configuration does not take the write of 'server' or of
\* 'proxy', set_parameters returns with auto_connect, proxy, protocol,
\* default_server, main interface, interfaces, connecting and socket_queue
\* unchanged.
C13_RejectedWriteKeepsRuntime ==
    \A np \in ValidParameters, rejected \in Rejections :
        \A m \in set_parameters(Net, np, rejected) :
            /\ m.raised = ""
            /\ Runtime(m) = Runtime(Net)
            /\ m.iface = iface /\ m.events = <<>>

\* a main interface is up, and a call that would restart the network when
\* the configuration takes it is rejected
C13_Witness ==
    /\ interface # None
    /\ \E np \in ValidParameters :
          /\ np.proxy # proxy
          /\ \A m \in set_parameters(Net, np, {"proxy"}) :
                Runtime(m) = Runtime(Net) /\ m.config # <<>>
          /\ \E m \in set_parameters(Net, np, {}) :
                Runtime(m) # Runtime(Net)

BootedWell ==
    /\ num_server = 0
    /\ \A k \in 1..Len(event_log) :
          event_log[k] # <<"status", "disconnected">>

FirstEvents ==
    <<<<"status", "connecting">>, <<"status", "connected">>,
      <<"updated", "">>, <<"interfaces", "">>, <<"interfaces", "">>>>

ClaimedEvents ==
    <<<<"status", "connecting">>, <<"status", "connected">>,
      <<"banner", "">>, <<"servers", "">>, <<"fee_histogram", "">>,
      <<"fee", "">>, <<"updated", "">>, <<"interfaces", "">>>>

IsPrefix(s, t) == Len(s) <= Len(t) /\ \A k \in 1..Len(s) : s[k] = t[k]

\* positions of the log holding the keys of `keys`, one after the other,
\* all behind position `from`
RECURSIVE InOrderAfter(_, _)
InOrderAfter(keys, from) ==
    keys = <<>> \/ \E k \in (from + 1)..Len(event_log) :
                      /\ event_log[k][1] = Head(keys)
                      /\ InOrderAfter(Tail(keys), k)

\* what request_server_info has notified when it awaits the request pc
NotifiedAt(pc) ==
    CASE pc = "server.banner" -> <<>>
      [] pc \in {"server.donation_address", "server.peers.subscribe"} ->
            <<"banner">>
      [] pc = "blockchain.estimatefee" -> <<"banner", "servers">>
      [] pc = "blockchain.relayfee" ->
            <<"banner", "servers", "fee_histogram", "fee">>

\* C16 as stated: on a boot where the server connects, the events come in
\* the order status (connecting), status (connected), banner, servers,
\* fee_histogram, fee, updated, interfaces.
C16_BootEventsAsClaimed ==
    BootedWell => IsPrefix(event_log, ClaimedEvents)

\* C16, amended: on a boot where the server connects, the events come in
\* the order status (connecting), status (connected), updated, interfaces,
\* interfaces; banner, servers, fee_histogram, fee of request_server_info
\* follow in this order, behind them.
C16_BootEventOrder ==
    BootedWell =>
        /\ \A k \in 1..Len(event_log) :
              IF k <= Len(FirstEvents) THEN event_log[k] = FirstEvents[k]
              ELSE event_log[k][1] \in
                       {"banner", "servers", "fee_histogram", "fee"}
        /\ \A k \in 1..Len(info_tasks) :
              info_tasks[k].coroutine = "request_server_info" =>
                  InOrderAfter(NotifiedAt(info_tasks[k].pc),
                               Len(FirstEvents))
        /\ Cardinality({k \in 1..Len(event_log) :
                           event_log[k][1] = "banner"}) <= 1

\* the server connected and request_server_info has notified all it has
C16_Witness ==
    /\ BootedWell
    /\ \E k \in 1..Len(info_tasks) :
          /\ info_tasks[k].coroutine = "request_server_info"
          /\ info_tasks[k].pc = "blockchain.relayfee"

\* ------------------------------------------- claims, maintain_sessions
\* C23: at the end of the removal step of a maintain_sessions tick, every
\* interface of `interfaces` that has recorded an exception is in
\* disconnected_servers, out of `interfaces` and closed, and an
\* `interfaces` event was given for it; when its server is default_server
\* there is no main interface and the status is `disconnected`.
C23_ErroredInterfacesRemoved ==
    Len(socket_queue) <= Cardinality(IfaceIds \ DOMAIN iface) =>
    \A errored \in SUBSET Open :
        \E n \in {remove_step(ObserveExceptions(Net, errored))} :
            \E gone \in {{k \in DOMAIN interfaces :
                             interfaces[k] \in errored}} :
                /\ \A k \in gone :
                      /\ k \in n.disconnected_servers
                      /\ k \notin DOMAIN n.interfaces
                      /\ n.iface[interfaces[k]].closed
                      /\ k = default_server =>
                            /\ n.interface = None
                            /\ n.connection_status = "disconnected"
                            /\ \E j \in 1..Len(n.events) :
                                  n.events[j] = <<"status", "disconnected">>
                /\ Cardinality({j \in 1..Len(n.events) :
                                   n.events[j][1] = "interfaces"})
                       = Cardinality(gone)
                /\ DOMAIN n.interfaces = DOMAIN interfaces \ gone

\* the main interface and another interface are in the pool: each of
\* them may have recorded an exception
C23_Witness ==
    /\ interface # None
    /\ default_server \in DOMAIN interfaces
    /\ interfaces[default_server] = interface
    /\ \E k \in DOMAIN interfaces : k # default_server

\* C24: the server start_random_interface chooses is not in
\* disconnected_servers, no key of `interfaces` and not in `connecting`;
\* when a server outside the three sets exists, the call enqueues a
\* connection.
C24_RandomServerIsFresh ==
    /\ \A server \in random_servers(Net) :
          /\ server \notin disconnected_servers
          /\ server \notin DOMAIN interfaces
          /\ server \notin connecting
    /\ get_servers(Net) \ (disconnected_servers \cup DOMAIN interfaces
                               \cup connecting) # {} =>
          \A m \in start_random_interface(Net) :
              Len(m.socket_queue) = Len(socket_queue) + 1

\* ------------------------------------------ claims, switch_to_interface
\* C25: switch_to_interface(server) for a server that is no key of
\* `interfaces` sets default_server to it, leaves no main interface and has
\* the server in `connecting`, enqueued unless it was connecting already;
\* when `ready` of a connection to default_server completes, new_interface
\* makes that interface the main one.
C25_SwitchToUnconnectedServer ==
    /\ \A server \in Servers \ DOMAIN interfaces :
          \E m \in {switch_to_interface(Net, server)} :
              /\ m.default_server = server
              /\ m.interface = None
              /\ server \in m.connecting
              /\ m.socket_queue = IF server \in connecting THEN socket_queue
                                  ELSE Append(socket_queue, server)
              /\ m.interfaces = interfaces
    /\ \A i \in tasks :
          iface[i].server = default_server =>
              \E m \in {new_interface_ready(Net, i)} :
                  /\ m.interface = i
                  /\ m.iface[i].ready /\ ~m.iface[i].closed
                  /\ m.default_server = default_server

\* after a switch to a server that was not connected: an interface is in
\* the pool, there is no main, and the connection to default_server awaits
\* `ready`
C25_Witness ==
    /\ interface = None
    /\ DOMAIN interfaces # {}
    /\ default_server \notin DOMAIN interfaces
    /\ \E i \in tasks : iface[i].server = default_server

\* what switch_to_interface(server) does to n when server is a key of
\* n.interfaces
SwitchedToReadyServer(n, server) ==
    \E i \in {n.interfaces[server]} :
    \E m \in {switch_to_interface(n, server)} :
        IF n.interface = i
        THEN /\ Runtime(m) = Runtime(n)
             /\ m.iface = n.iface
             /\ m.connection_status = n.connection_status
             /\ m.disconnected_servers = n.disconnected_servers
             /\ m.events = n.events /\ m.spawned = n.spawned
        ELSE /\ m.default_server = server
             /\ m.interface = i
             /\ server \in DOMAIN m.interfaces
             /\ m.interfaces[server] = i
             /\ m.connection_status = "connected"
             /\ m.events = n.events \o
                    <<<<"default_server_changed", "">>,
                      <<"status", "connected">>,
                      <<"updated", "">>, <<"interfaces", "">>>>
             /\ IF n.interface = None
                THEN /\ m.socket_queue = n.socket_queue
                     /\ m.connecting = n.connecting
                     /\ m.interfaces = n.interfaces
                ELSE \E old_server \in {n.iface[n.interface].server} :
                     /\ m.iface[n.interface].closed
                     /\ old_server \notin DOMAIN m.interfaces
                     /\ \A k \in DOMAIN m.interfaces :
                           m.interfaces[k] # n.interface
                     /\ IF Cardinality(DOMAIN m.interfaces) <= n.num_server
                        THEN /\ m.socket_queue =
                                   Append(n.socket_queue, old_server)
                             /\ m.connecting =
                                   n.connecting \cup {old_server}
                        ELSE /\ m.socket_queue = n.socket_queue
                             /\ m.connecting = n.connecting

\* C26: switch_to_interface(server) for a ready server that is not the
\* main closes the old main and takes it out of `interfaces`, enqueues the
\* old server again exactly when `interfaces` then has at most num_server
\* entries, makes interfaces[server] the main and gives
\* default_server_changed, status (connected), updated, interfaces in this
\* order; for the server of the main it changes nothing and gives no event.
\* (checked where the code calls it for a ready server: from a handler
\* that starts with it, and from new_interface for its own server)
C26_SwitchToReadyServer ==
    /\ \A server \in DOMAIN interfaces : SwitchedToReadyServer(Net, server)
    /\ \A i \in tasks :
          iface[i].server = default_server =>
              SwitchedToReadyServer(new_interface_inserted(Net, i),
                                    default_server)

\* ---------------------------------------- claims, restart of the network
\* C29: the server of the main interface, when there is one, is
\* default_server; the assertions of stop_network and of start_network
\* never fail.
C29_MainServesDefaultServer ==
    /\ interface # None => iface[interface].server = default_server
    /\ ~assertion_error

\* a main interface is elected while a new_interface task started before
\* a restart still awaits `ready`
C29_Witness ==
    /\ interface # None
    /\ \E i \in tasks : iface[i].proxy # proxy

\* C30: after a restart of set_parameters, every Interface in `interfaces`
\* and the main interface were opened with the proxy of the restart; a
\* new_interface task started before the restart does not store its
\* Interface afterwards.
C30_PoolOpenedWithCurrentProxy ==
    /\ \A server \in DOMAIN interfaces :
          iface[interfaces[server]].proxy = proxy
    /\ interface # None => iface[interface].proxy = proxy

\* C31: at any time at most one Interface that is not closed, awaiting
\* `ready` or ready, exists per server: there are never two connection
\* attempts or sessions to one server at once.
C31_OneInterfacePerServer ==
    \A i, j \in DOMAIN iface :
        /\ ~iface[i].closed /\ ~iface[j].closed
        /\ iface[i].server = iface[j].server
        => i = j

\* ------------------------------------------------- claims, RecoverSpec
\* C32: while maintain_sessions keeps running and the servers accept
\* connections, a Network with auto_connect that has no main interface
\* eventually has one again, in every configuration, `oneserver` included.
C32_MainEventuallyElected ==
    (interface = None /\ auto_connect) ~> (interface # None)

ChunkIndices == {chunk_index(height) : height \in Heights}

\* C4 as claimed: at no time are two blockchain.block.headers RPCs for the
\* same chunk index in flight.
C4_OneRequestPerChunk ==
    \A index \in ChunkIndices : Cardinality(InFlight(Chunks, index)) <= 1

\* C4 as amended: when every caller passes can_return_early=True, at most
\* one RPC per chunk index is in flight, and an index is in
\* requested_chunks exactly while its RPC is in flight.
C4_OneRequestPerChunkWhenAllReturnEarly ==
    ~plain_callers =>
        \A index \in ChunkIndices :
            /\ Cardinality(InFlight(Chunks, index)) <= 1
            /\ index \in requested_chunks <=> InFlight(Chunks, index) # {}

\* every caller returns early; a call for a chunk has finished and removed
\* the index, and a later call for the same chunk is in flight
C4_Witness ==
    /\ ~plain_callers
    /\ \E c1 \in Callers, c2 \in Callers :
          /\ chunk_calls[c1].pc = "returned"
          /\ Len(chunk_calls[c1].result) = 2
          /\ chunk_calls[c2].pc = "awaiting"
          /\ chunk_calls[c2].can_return_early

\* C5: a call with can_return_early=True for an index in requested_chunks
\* returns None at once, sends no RPC and leaves requested_chunks as it is;
\* when the callers all return early and another caller's RPC for the index
\* is in flight, that RPC stays the only one.
C5_SecondCallerReturnsEarly ==
    \A c2 \in Callers, height \in Heights, tip \in Tips :
        LET index == chunk_index(height)
            m == request_chunk_call(Chunks, c2, height, tip, TRUE)
        IN chunk_calls[c2].pc # "awaiting" =>
            /\ index \in requested_chunks =>
                  /\ m.requested_chunks = requested_chunks
                  /\ \A i \in ChunkIndices : InFlight(m, i) = InFlight(Chunks, i)
                  /\ m.calls[c2].pc = "returned"
                  /\ m.calls[c2].result = <<>>
            /\ ~plain_callers /\ InFlight(Chunks, index) # {} =>
                  /\ index \in requested_chunks
                  /\ Cardinality(InFlight(m, index)) = 1

\* the first caller's RPC is in flight and the second caller has returned
\* None
C5_Witness ==
    /\ ~plain_callers
    /\ \E c1 \in Callers, c2 \in Callers :
          /\ chunk_calls[c1].pc = "awaiting"
          /\ chunk_calls[c1].can_return_early
          /\ chunk_index(chunk_calls[c1].height) \in requested_chunks
          /\ chunk_calls[c2].pc = "returned"
          /\ chunk_calls[c2].result = <<>>

AtChunkStart(height, tip) ==
    tip # NoTip /\ tip = chunk_index(height) * ChunkSize

\* C6 as claimed: request_chunk with tip = index*2016 sends no
\* blockchain.block.headers RPC.
C6_NoRequestAtChunkStart ==
    \A c \in Callers :
        chunk_calls[c].pc = "awaiting"
            => ~AtChunkStart(chunk_calls[c].height, chunk_calls[c].tip)

\* C6 as amended: request_chunk with tip = index*2016 computes size 0 and,
\* unless it returns early, sends blockchain.block.headers with
\* [index*2016, 0].
C6_SizeZeroRequestAtChunkStart ==
    /\ \A c \in Callers :
          /\ chunk_calls[c].pc = "awaiting"
          /\ AtChunkStart(chunk_calls[c].height, chunk_calls[c].tip)
          => chunk_calls[c].params = <<chunk_calls[c].tip, 0>>
    /\ \A c \in Callers, height \in Heights, tip \in Tips,
          can_return_early \in BOOLEAN :
          LET index == chunk_index(height)
              m == request_chunk_call(Chunks, c, height, tip, can_return_early)
          IN /\ chunk_calls[c].pc # "awaiting"
             /\ AtChunkStart(height, tip)
             /\ ~(can_return_early /\ index \in requested_chunks)
             => /\ m.calls[c].pc = "awaiting"
                /\ m.calls[c].params = <<index * ChunkSize, 0>>
                /\ index \in m.requested_chunks

\* a request for chunk 1 with tip = 2016 is in flight, asking for 0 headers
C6_Witness ==
    \E c \in Callers :
        /\ chunk_calls[c].pc = "awaiting"
        /\ chunk_calls[c].tip = chunk_index(chunk_calls[c].height) * ChunkSize
        /\ chunk_calls[c].tip = ChunkSize
        /\ chunk_calls[c].params[2] = 0

\* ------------------------------------------------- claims, Synchronizer
\* C7: every address in requested_histories has its on_address_status
\* still running; none stays after the call that inserted it has ended,
\* whether get_history completed or failed.
C7_RequestedHistoriesRemoved ==
    \A addr \in DOMAIN requested_histories :
        \E t \in sync_tasks : t.kind = "on_address_status" /\ t.addr = addr

\* C8: every tx_hash in requested_tx has its get_transaction still
\* running; none stays after the call has ended, whether the transaction
\* was committed or dropped or the request failed.
C8_RequestedTxRemoved ==
    \A tx_hash \in DOMAIN requested_tx :
        \E t \in sync_tasks : t.kind = "get_transaction" /\ t.tx_hash = tx_hash

\* C9: for every address the server has pushed a status for, when no
\* history fetch is in flight and no status for it waits in status_queue
\* or in a spawned on_address_status, the digest of wallet.history[addr] is
\* the last status pushed.
C9_HistoryMatchesLastStatus ==
    \A addr \in DOMAIN last_pushed_status :
        /\ addr \notin DOMAIN requested_histories
        /\ \A k \in 1..Len(status_queue) :
              status_queue[k][1] # address_to_scripthash(addr)
        /\ \A t \in sync_tasks : ~(t.kind = "on_address_status" /\ t.addr = addr)
        => history_status(wallet_history[addr]) = last_pushed_status[addr]

\* the status that is the digest of the wallet's history of addr
WalletStatus(addr) ==
    history_status(IF addr \in DOMAIN wallet_history
                   THEN wallet_history[addr] ELSE <<>>)

\* the statuses a server may announce
Statuses == {history_status(ServerHistory(k)) : k \in 0..MaxTxs}

InFlightHistories(addr) ==
    {t \in sync_tasks : /\ t.kind = "on_address_status"
                        /\ t.pc = "get_history" /\ t.addr = addr}

\* C18: on_address_status with the status that is the digest of the
\* wallet's history of the address sends no request, leaves
\* requested_histories and requested_tx as they are, calls no wallet method
\* and gives no event.
C18_EqualStatusDoesNothing ==
    \A addr \in Addrs :
        \E s \in {on_address_status(Sync, addr, WalletStatus(addr))} :
            /\ s.tasks = sync_tasks
            /\ s.requested_histories = requested_histories
            /\ s.requested_tx = requested_tx
            /\ s.wallet_history = wallet_history
            /\ s.wallet_transactions = wallet_transactions
            /\ s.wallet_calls = <<>>
            /\ s.events = <<>>

\* handle_status is about to hand on a status equal to the digest, for an
\* address that is not in requested_histories
C18_Witness ==
    /\ status_queue # <<>>
    /\ \E addr \in Addrs :
          /\ Head(status_queue) =
                <<address_to_scripthash(addr), WalletStatus(addr)>>
          /\ addr \notin DOMAIN requested_histories
          /\ WalletStatus(addr) # NoStatus

\* C19: at most one get_history is in flight per address; a status for an
\* address that is in requested_histories sends no request and leaves
\* requested_histories as it is.
C19_OneGetHistoryPerAddress ==
    \A addr \in Addrs :
        /\ Cardinality(InFlightHistories(addr)) <= 1
        /\ InFlightHistories(addr) # {} => addr \in DOMAIN requested_histories
        /\ addr \in DOMAIN requested_histories =>
              \A status \in Statuses :
                  \E s \in {on_address_status(Sync, addr, status)} :
                      /\ s.tasks = sync_tasks
                      /\ s.requested_histories = requested_histories

\* a get_history is in flight and handle_status is about to hand on
\* another status for the same address
C19_Witness ==
    /\ status_queue # <<>>
    /\ \E addr \in Addrs :
          /\ InFlightHistories(addr) # {}
          /\ Head(status_queue)[1] = address_to_scripthash(addr)
          /\ Head(status_queue)[2] # WalletStatus(addr)
          /\ Head(status_queue)[2] # requested_histories[addr]

\* what a server may answer to get_history: the histories it may hold,
\* and lists of up to two items with any hash and a right or wrong height
Items == {<<tx_hash, HeightOf(tx_hash) - wrong>> :
             tx_hash \in 1..2, wrong \in {0, 1}}

Replies ==
    {ServerHistory(k) : k \in 0..MaxTxs}
        \cup {<<a>> : a \in Items} \cup {<<a, b>> : a \in Items, b \in Items}

Distinct(result) ==
    \A j \in 1..Len(result), k \in 1..Len(result) :
        j # k => result[j][1] # result[k][1]

\* C20: wallet.receive_history_callback is called only when the reply to
\* get_history has pairwise distinct tx hashes and its digest is the status
\* that started the request; otherwise wallet.history and requested_tx stay
\* as they are and the address leaves requested_histories.
C20_HistoryStoredOnlyWhenVerified ==
    \A t \in sync_tasks :
        t.kind = "on_address_status" /\ t.pc = "get_history" =>
            \A result \in Replies :
                \E s \in {on_address_status_result(Sync, t, result)} :
                    IF Distinct(result) /\ history_status(result) = t.status
                    THEN s.wallet_calls =
                            <<<<"receive_history_callback", t.addr>>>>
                    ELSE /\ s.wallet_calls = <<>>
                         /\ s.wallet_history = wallet_history
                         /\ s.requested_tx = requested_tx
                         /\ t.addr \notin DOMAIN s.requested_histories

\* a get_history is in flight and the history the server holds by now has
\* another digest than the status that started the request
C20_Witness ==
    \E t \in sync_tasks :
        /\ t.kind = "on_address_status" /\ t.pc = "get_history"
        /\ history_status(server_history[t.addr]) # t.status
        /\ wallet_history[t.addr] # server_history[t.addr]

GetTransactions == {t \in sync_tasks : t.kind = "get_transaction"}

\* C21: get_transaction calls wallet.receive_tx_callback and gives the
\* new_transaction event only for a reply that deserializes and has the
\* txid asked for, with the height requested_tx holds for the hash; a
\* reply that is dropped leaves the other transactions of the batch in
\* flight, and each of them is committed by its own reply.
C21_TxCommittedOnlyWhenValid ==
    \A t \in GetTransactions :
        /\ t.tx_hash \in DOMAIN requested_tx
        /\ \A result \in TransactionReplies(t) :
              \E s \in {get_transaction_result(Sync, t, result)} :
                  /\ s.tasks = sync_tasks \ {t}
                  /\ IF result.deserializes /\ result.txid = t.tx_hash
                     THEN /\ s.wallet_calls =
                                <<<<"receive_tx_callback", t.tx_hash,
                                    requested_tx[t.tx_hash]>>>>
                          /\ s.events = <<<<"new_transaction", t.tx_hash>>>>
                          /\ s.wallet_transactions =
                                wallet_transactions \cup {t.tx_hash}
                     ELSE /\ s.wallet_calls = <<>> /\ s.events = <<>>
                          /\ s.wallet_transactions = wallet_transactions
                          /\ s.requested_tx = requested_tx

\* a transaction of a batch was dropped (it is requested, and no task
\* fetches it) while another of the same batch is still being fetched
C21_Witness ==
    \E t \in GetTransactions :
        \E tx_hash \in DOMAIN requested_tx :
            /\ tx_hash # t.tx_hash
            /\ \A u \in GetTransactions : u.tx_hash # tx_hash
            /\ tx_hash \notin wallet_transactions

\* the accepted history of an address that holds tx_hash is handed to
\* request_missing_txs again (the next status push), and a
\* blockchain.transaction.get for tx_hash is sent
FetchedAgain(tx_hash) ==
    \A addr \in DOMAIN wallet_history :
        (\E k \in 1..Len(wallet_history[addr]) :
             wallet_history[addr][k][1] = tx_hash) =>
            \E u \in request_missing_txs(Sync, wallet_history[addr],
                                         addr).tasks :
                u.kind = "get_transaction" /\ u.tx_hash = tx_hash

\* C22: once get_transaction has dropped a reply (it does not deserialize,
\* or has another txid), the next status push for an address whose
\* accepted history holds the hash sends blockchain.transaction.get for it
\* again.
C22_DroppedTxFetchedAgain ==
    [][\A t \in GetTransactions :
          (\E result \in TransactionReplies(t) :
              /\ ~(result.deserializes /\ result.txid = t.tx_hash)
              /\ sync_tasks' = get_transaction_result(Sync, t, result).tasks
              /\ requested_tx' = requested_tx
              /\ wallet_transactions' = wallet_transactions)
          => FetchedAgain(t.tx_hash)']_vars

\* ------------------------------------------------------ claims, CallSpec
\* C11: broadcast_transaction never raises and returns (ok, message): ok
\* is true exactly when the reply equals tx.txid(); a timeout gives
\* (False, "error: operation timed out"); any other failure, no main
\* interface or another reply included, gives (False, "error: " + detail).
C11_BroadcastReturnsPair ==
    broadcast # NoBroadcast =>
        LET r == broadcast.result
            a == broadcast.answer
        IN /\ r.raised = ""
           /\ r.ok <=> (a.kind = "result" /\ a.type = "str"
                           /\ a.value = broadcast.txid)
           /\ r.ok => r.message = <<broadcast.txid>>
           /\ a.kind = "timeout"
                 => r.message = <<"error: ", "operation timed out">>
           /\ ~r.ok => Len(r.message) = 2 /\ r.message[1] = "error: "

\* C17: deserialize_proxy(serialize_proxy(x)) = x for every valid proxy
\* dict x, with or without user and password, and deserialize_proxy("none")
\* is None.
C17_ProxyRoundTrip ==
    /\ deserialize_proxy(<<"none">>) = NoProxy
    /\ /\ proxy_arg # NoProxy
       /\ proxy_str = serialize_proxy(proxy_arg)
       /\ proxy_out # Pending
       => proxy_out = proxy_arg

\* C27: an exception of a subscriber does not leave trigger_callback and
\* does not keep the remaining subscribers from being called; the
\* subscribers called are those of the copy taken under callback_lock, and
\* none is called while the lock is held.
C27_SubscriberExceptionsContained ==
    dispatch # Pending =>
        /\ ~dispatch.result.raised
        /\ dispatch.result.called =
              [k \in 1..Len(dispatch.snapshot) |-> <<k, FALSE>>]

\* ---------------------------------------------------- claims, RecentSpec

\* C28: after any calls of add_recent_server, recent_servers has at most
\* the kept number of entries, starts with the server of the last call and
\* holds no server twice; adding a server that is in the list moves it to
\* the front and leaves the length.
C28_RecentServersBounded ==
    last_server # 0 =>
        /\ Len(recent_servers) <= NumRecent
        /\ recent_servers[1] = last_server
        /\ \A j, k \in 1..Len(recent_servers) :
              recent_servers[j] = recent_servers[k] => j = k
        /\ \A k \in 1..Len(recent_servers) :
              LET again == add_recent_server(recent_servers, recent_servers[k])
              IN /\ Len(again) = Len(recent_servers)
                 /\ again[1] = recent_servers[k]
                 /\ {again[j] : j \in 1..Len(again)}
                       = {recent_servers[j] : j \in 1..Len(recent_servers)}

\* more servers were added than are kept, and the last call added one
\* again that was no longer in the list
C28_Witness ==
    /\ Cardinality(added_servers) > NumRecent
    /\ Len(recent_servers) = NumRecent
    /\ \E server \in added_servers :
          \A k \in 1..Len(recent_servers) : recent_servers[k] # server

====
